---- MODULE Spec2Model ----
(***************************************************************************)
(* Verification model of pitchgrid-mapper (package pg_isomap).             *)
(*                                                                         *)
(* The module holds several specifications over one set of variables:      *)
(*   SpecRemap  - MIDI core: input callback, ingress queue, remap thread,  *)
(*                update_note_mapping running concurrently;                *)
(*   SpecQueue  - the ingress queue driven to saturation;                  *)
(*   SpecSend   - generation-cancellable sends to the controller output;   *)
(*   SpecLayout - the coordinator and the three layout calculators.        *)
(***************************************************************************)
EXTENDS Integers, Sequences, FiniteSets, TLC

(***************************************************************************)
(* Bounds of the model                                                     *)
(***************************************************************************)
MaxArrivals == 3      \* messages delivered to the input callback (SpecRemap)
MaxInstalls == 2      \* update_note_mapping calls (SpecRemap)
MaxBurst == 1002      \* messages delivered to the input callback (SpecQueue)
MaxDrain == 2         \* messages the remap thread takes (SpecQueue)
MaxTriggers == 1       \* trigger_note requests that send (SpecTrigger)
MaxIsoCalls == 4      \* method calls on the IsomorphicLayout (SpecIso)
MaxPortChanges == 3    \* ports plugged in or removed (SpecDiscovery)
MaxDiscoveryIterations == 3  \* iterations of _discovery_loop (SpecDiscovery)
MaxSysExData == 2      \* data bytes of a SysEx handed to the parser (SpecParse)
MaxCallbackErrors == 1 \* exceptions raised by the on_note_event callback
MaxRecursionDepth == 3 \* stack depth at which the interpreter raises RecursionError
MaxTokens == 2         \* tokens of a template handed to build_midi_message
MaxLockCalls == 4      \* calls made while the two locks are watched (SpecLock)
MaxThreads == 3        \* threads that start() creates (SpecThreads)
MaxHandlerCalls == 3  \* coordinator handlers invoked (SpecLayout, SpecSend)

(***************************************************************************)
(* Program constants                                                       *)
(***************************************************************************)
QueueMaxSize == 1000  \* queue.Queue(maxsize=1000)
midi_buffer_size == 1024  \* Settings.midi_buffer_size
NOTE_ON == 144        \* rtmidi.midiconstants.NOTE_ON  = 0x90
NOTE_OFF == 128       \* rtmidi.midiconstants.NOTE_OFF = 0x80
None == -1000         \* stands for Python's None where a table holds it

VARIABLES
    \* ---- MIDIHandler ----
    midi_out,            \* "none" | "open" | "unopened"   (self.midi_out)
    running,             \* self._running
    message_queue,       \* self._message_queue: Seq of <<message, timestamp>>
    note_mapping,        \* self.note_mapping: pad -> index
    reverse_mapping,     \* self.reverse_mapping: native note -> pad
    messages_processed,  \* self.messages_processed
    notes_remapped,      \* self.notes_remapped
    \* ---- the remap thread (_processing_loop) ----
    pc_remap,            \* position inside the loop body
    message,             \* the dequeued message
    logical_coord,       \* local logical_coord
    mapped_note,         \* local mapped_note
    timestamp,           \* local timestamp: the arrival number of the message
    loop_errors,         \* exceptions logged by the handler at the bottom of the loop
    callback_errors,     \* exceptions of on_note_event logged inside the loop
    \* ---- a thread inside update_note_mapping ----
    pc_update,           \* "idle" | "mid"
    update_arg,          \* index of the installation being installed
    \* ---- environment and history ----
    clock,               \* number of messages delivered to _midi_callback
    queue_drops,         \* number of messages the callback dropped
    virt_out,            \* messages handed to the virtual output, in order
    virt_at,             \* the arrival number of each message of virt_out
    installs,            \* number of update_note_mapping calls started
    note_mapping_inst,   \* installation that wrote note_mapping
    reverse_mapping_inst,\* installation that wrote reverse_mapping
    used_rev_inst,       \* installation whose reverse table served the lookup
    used_fwd_inst,       \* installation whose forward table served the lookup
    stable_since_get,    \* no table was written since the message was dequeued
    out_at_get,          \* Len(virt_out) when the message was dequeued
    drained,             \* messages taken from the queue
    \* ---- PGIsomapApp and TuningHandler ----
    current_controller,  \* name of self.current_controller, or "none"
    layout_type,         \* self.current_layout_config.layout_type
    calculator,          \* self.current_layout_calculator
    tuning,              \* index of the tuning held by self.tuning_handler
    edits,               \* transformations applied (history)
    retunes,             \* tuning updates handled (history)
    switches,            \* calls of the switch, connect and layout handlers (history)
    last_handler,        \* the handler of the coordinator that ran last (history)
    switch_call,         \* last /api/controllers/switch: device_name, 'success'
    \* ---- controller egress ----
    controller_port,     \* TRUE iff self.controller_port is an open port
    controller_out,      \* TRUE iff self.controller_out is an open port
    color_send_generation, \* self._color_send_generation
    workers,             \* color-send worker threads, in order of creation
    ctrl_out,            \* messages handed to the controller output
    cancel_returns,      \* the values cancel_color_send returned, in order
    \* ---- the OSC thread inside _handle_scale_update ----
    pc_scale,            \* "idle" | "arrived" | "cancelled" | "tuned"
    scale_arg,           \* the tuning named by the arguments, 0 if too short
    gen_at_arrival,      \* the generation counter when the update arrived
    inflight_at_arrival, \* the workers in flight when the update arrived
    scale_worker,        \* the worker this update started, 0 if none yet
    scale_result,        \* the locals mapping and reverse_mapping of
                         \* _recalculate_layout on the OSC thread
    \* ---- an IsomorphicLayout driven directly, and its history ----
    iso,                 \* the IsomorphicLayout object
    iso_edits,           \* apply_transformation calls with a known type
    iso_fits,            \* calculate_mapping calls
    iso_origin,          \* mapping_transform after construction or calculation
    iso_composed,        \* the deltas applied since then, composed
    iso_shift,           \* the translations of those deltas, summed
    iso_last,            \* the type of the last edit, "" if none since then
    iso_before,          \* mapping_transform before the last edit
    iso_run,             \* length of the run of edits of type iso_last
    iso_run_start,       \* mapping_transform before that run
    \* ---- ports, discovery thread, a thread inside switch_controller ----
    ports,               \* controllers whose MIDI port exists on the system
    cached_midi_ports,   \* self._cached_midi_ports
    connected_port_name, \* self.midi_handler.connected_port_name, or "none"
    last_detected,       \* local last_detected of _discovery_loop
    last_midi_connected, \* local last_midi_connected of _discovery_loop
    status_events,       \* broadcast_status_update calls of _recalculate_layout
    discovery_events,    \* broadcast_status_update calls of _discovery_loop
    discovery_iterations,\* iterations of _discovery_loop (history)
    port_events,         \* ports that appeared or disappeared (history)
    pc_switch,           \* "idle" | "replaced" | "connected"
    \* ---- send_raw_bytes: the byte list handed in and its messages ----
    parse_data,          \* data
    parse_messages,      \* messages = self._parse_midi_messages(data)
    \* ---- build_midi_message: its arguments and what it returned ----
    tpl_template,        \* template, as its tokens
    tpl_kwargs,          \* kwargs
    tpl_result,          \* [raised, bytes]: the exception or the message
    tpl_pc,              \* "idle" | "returned": the caller of build_midi_message
    \* ---- the locks and the threads that take them ----
    color_send_lock,     \* holder of MIDIHandler._color_send_lock, << >> if free
    ports_lock,          \* holder of PGIsomapApp._ports_lock, << >> if free
    ports_copies,        \* get_cached_midi_ports calls of _discovery_loop that
                         \* returned (history)
    threads,             \* where every _processing_loop thread created so far
                         \* is: "test" | "get" | "exited"
    thread,              \* MIDIHandler._thread: an index of threads, 0 for None
    pc_stop              \* "idle" | "join": stop() at self._thread.join

hVars == << midi_out, running >>
qVars == << message_queue, clock, queue_drops, drained >>
tVars == << note_mapping, reverse_mapping, note_mapping_inst,
            reverse_mapping_inst >>
rVars == << pc_remap, message, logical_coord, mapped_note, used_rev_inst,
            used_fwd_inst, stable_since_get, out_at_get, messages_processed,
            notes_remapped, virt_out, timestamp, virt_at, loop_errors,
            callback_errors >>
uVars == << pc_update, update_arg, installs >>

lVars == << current_controller, layout_type, calculator, tuning, edits,
            retunes, switches, last_handler,
            switch_call >>
sVars == << controller_port, controller_out, color_send_generation, workers,
            ctrl_out, cancel_returns >>
oVars == << pc_scale, scale_arg, gen_at_arrival, inflight_at_arrival,
            scale_worker, scale_result >>

fVars == << parse_data, parse_messages, tpl_template, tpl_kwargs, tpl_result,
            tpl_pc >>

iVars == << iso, iso_edits, iso_fits, iso_origin, iso_composed, iso_shift,
            iso_last, iso_before, iso_run, iso_run_start >>
pVars == << ports, cached_midi_ports, last_detected, last_midi_connected,
            pc_switch, discovery_events, discovery_iterations, port_events >>
dVars == << pVars, connected_port_name, status_events >>

kVars == << color_send_lock, ports_lock, ports_copies, threads, thread,
            pc_stop >>

vars == << hVars, qVars, tVars, rVars, uVars, lVars, sVars, oVars, iVars, fVars, kVars,
           dVars >>

(***************************************************************************)
(* Tables                                                                  *)
(***************************************************************************)
EmptyMap == [k \in {} |-> 0]

\* Messages the controller sends.
Messages ==
    { <<144, 10, 100>>,   \* NoteOn  ch 0, native note 10: pad (0, 0)
      <<129, 13, 0>>,     \* NoteOff ch 1, native note 13: pad (0, 1)
      <<144, 16, 64>>,    \* NoteOn  ch 0, native note 16: pad (0, 2)
      <<176, 10, 99>>,    \* control change
      <<248>> }           \* real-time clock

BurstMessage == <<176, 10, 99>>

(***************************************************************************)
(* Controllers (ControllerConfig) and tunings (TuningHandler)              *)
(***************************************************************************)
NoRoot == << >>

\* Three controller descriptors: their pads (get_logical_coordinates), their
\* defaultIsoRootCoordinate, the native note of every pad, whether a MIDI
\* port is configured and which setup and color templates they carry.
Controllers ==
    [ Grid3x3 |-> [ pads |-> (0..2) \X (0..2), root |-> <<1, 1>>,
                    first_note |-> 10, row_stride |-> 3,
                    controller_midi_output |-> FALSE,
                    set_pad_notes_bulk |-> FALSE, set_pad_color |-> TRUE ],
      Pair    |-> [ pads |-> (0..1) \X {0}, root |-> <<0, 0>>,
                    first_note |-> 36, row_stride |-> 2,
                    controller_midi_output |-> TRUE,
                    set_pad_notes_bulk |-> TRUE, set_pad_color |-> TRUE ],
      Grid2x2 |-> [ pads |-> (0..1) \X (0..1), root |-> NoRoot,
                    first_note |-> 10, row_stride |-> 2,
                    controller_midi_output |-> FALSE,
                    set_pad_notes_bulk |-> FALSE, set_pad_color |-> FALSE ] ]

ControllerNames == DOMAIN Controllers

\* ControllerConfig.controller_note_to_logical_coord: the descriptor's
\* noteToCoordX and noteToCoordY expressions evaluated on the note number.
ControllerNoteToLogicalCoord(c, note) ==
    << (note - Controllers[c].first_note) % Controllers[c].row_stride,
       (note - Controllers[c].first_note) \div Controllers[c].row_stride >>

\* ControllerConfig.build_controller_note_mapping: native note -> pad, for
\* every declared pad.
BuildControllerNoteMapping(c) ==
    [ note \in { n \in 0..127 :
                   ControllerNoteToLogicalCoord(c, n) \in Controllers[c].pads } |->
        ControllerNoteToLogicalCoord(c, note) ]

\* coord_to_scale_index as _calculate_mos builds it: enumerate(scale nodes),
\* at most 128 nodes in pitch order with index 60 at the lattice origin.
\* ScaleTable is a scale of n notes per period: the node of step k has
\* k = x + y and its minor coordinate is floor((minor*k + 1)/n).
ScaleNode(k, minor, n, swap) ==
    LET m == (minor * k + 1) \div n
    IN IF swap THEN << m, k - m >> ELSE << k - m, m >>

ScaleTable(minor, n, swap) ==
    [ c \in { ScaleNode(k, minor, n, swap) : k \in -60..67 } |->
        60 + c[1] + c[2] ]

\* ChromaticTable is the 5L2s lattice with 12 notes per period (L = 2
\* steps, s = 1 step): the seven notes of the scale and the five notes one
\* chroma (L - s) above a scale note that is followed by a large step.
ChromaticTable ==
    LET scale == { ScaleNode(k, 2, 7, FALSE) : k \in -35..39 }
        raised == { << c[1] + 1, c[2] - 1 >> :
                      c \in { ScaleNode(k, 2, 7, FALSE) :
                                k \in { j \in -35..39 :
                                          j % 7 \in {0, 1, 3, 4, 5} } } }
        ChromaticNodes ==
            { c \in scale \cup raised :
                0 <= 60 + 2 * c[1] + c[2] /\ 60 + 2 * c[1] + c[2] <= 127 }
    IN [ c \in ChromaticNodes |-> 60 + 2 * c[1] + c[2] ]

NoMOS == [ a |-> 0, b |-> 0, v_gen |-> <<0, 0>>, L_vec_x |-> 0,
           n |-> 0, n0 |-> 0, a0 |-> 0 ]

\* self.scale_degrees = list(range(self.steps))
ScaleDegrees(steps) == [ i \in 1..steps |-> i - 1 ]

CalculateMosFallbackKeepsTable(steps) ==
    [ id |-> 4, has_mos |-> FALSE, mos |-> NoMOS, table |-> ChromaticTable,
      steps |-> steps, scale_degrees |-> ScaleDegrees(steps) ]

\* The except branch of _calculate_mos: no MOS, no scale, an empty
\* coord_to_scale_index and the chromatic scale degrees.
CalculateMosFallback(steps) ==
    [ id |-> 4, has_mos |-> FALSE, mos |-> NoMOS, table |-> EmptyMap,
      steps |-> steps, scale_degrees |-> ScaleDegrees(steps) ]

\* States of the TuningHandler: mos (the fields the layouts read),
\* coord_to_scale_index and steps: the depth-1 MOS of the default
\* parameters, 5L2s with 12 steps, 2L5s with 7 steps, and the fallback
\* taken when MOS construction fails.
Tunings ==
    << [ id |-> 1, has_mos |-> TRUE,
         mos |-> [ a |-> 1, b |-> 1, v_gen |-> <<0, 1>>, L_vec_x |-> 1,
                   n |-> 2, n0 |-> 2, a0 |-> 1 ],
         table |-> ScaleTable(1, 2, FALSE), steps |-> 12,
         scale_degrees |-> ScaleDegrees(12) ],
       [ id |-> 2, has_mos |-> TRUE,
         mos |-> [ a |-> 5, b |-> 2, v_gen |-> <<3, 1>>, L_vec_x |-> 1,
                   n |-> 7, n0 |-> 7, a0 |-> 5 ],
         table |-> ChromaticTable, steps |-> 12,
         scale_degrees |-> ScaleDegrees(12) ],
       [ id |-> 3, has_mos |-> TRUE,
         mos |-> [ a |-> 2, b |-> 5, v_gen |-> <<1, 3>>, L_vec_x |-> 0,
                   n |-> 7, n0 |-> 7, a0 |-> 2 ],
         table |-> ScaleTable(2, 7, TRUE), steps |-> 7,
         scale_degrees |-> ScaleDegrees(7) ],
       CalculateMosFallback(12) >>

(***************************************************************************)
(* Integer affine transforms <<a, b, c, d, tx, ty>>                        *)
(***************************************************************************)
Apply(M, v) == << M[1] * v[1] + M[2] * v[2] + M[5],
                  M[3] * v[1] + M[4] * v[2] + M[6] >>

\* M1.applyAffine(M2): the transform v |-> M1(M2(v)).
ApplyAffine(M1, M2) ==
    << M1[1] * M2[1] + M1[2] * M2[3], M1[1] * M2[2] + M1[2] * M2[4],
       M1[3] * M2[1] + M1[4] * M2[3], M1[3] * M2[2] + M1[4] * M2[4],
       M1[1] * M2[5] + M1[2] * M2[6] + M1[5],
       M1[3] * M2[5] + M1[4] * M2[6] + M1[6] >>

Det(M) == M[1] * M[4] - M[2] * M[3]

Invertible(M) == Det(M) \in {1, -1}

\* int(round(num / den)): round to nearest, ties to even.
RoundDiv(num, den) ==
    LET Abs(x) ==
            IF x < 0 THEN 0 - x ELSE x
    IN
        LET sn == IF den < 0 THEN 0 - num ELSE num
            sd == Abs(den)
            q == sn \div sd
            r == sn % sd
        IN IF 2 * r < sd THEN q
           ELSE IF 2 * r > sd THEN q + 1
           ELSE IF q % 2 = 0 THEN q ELSE q + 1

\* affineFromThreeDots((0,0), p2, p3, q1, q2, q3) with all six entries
\* rounded: the affine map sending 0 -> q1, p2 -> q2, p3 -> q3.
FitDet(p2, p3) == p2[1] * p3[2] - p3[1] * p2[2]

AffineFromThreeDots(p2, p3, q1, q2, q3) ==
    LET e == FitDet(p2, p3)
        ux == q2[1] - q1[1]
        uy == q2[2] - q1[2]
        wx == q3[1] - q1[1]
        wy == q3[2] - q1[2]
    IN << RoundDiv(ux * p3[2] - wx * p2[2], e),
          RoundDiv(wx * p2[1] - ux * p3[1], e),
          RoundDiv(uy * p3[2] - wy * p2[2], e),
          RoundDiv(wy * p2[1] - uy * p3[1], e),
          q1[1], q1[2] >>

(***************************************************************************)
(* IsomorphicLayout                                                        *)
(***************************************************************************)
DefaultRoot(c) ==
    IF Controllers[c].root = NoRoot THEN <<0, 0>> ELSE Controllers[c].root

NoCalculator == [ kind |-> "none" ]

NewIsomorphicLayout(root) ==
    [ kind |-> "isomorphic",
      quad_or_hex |-> "rect",
      mapping_transform |-> << 1, 0, 0, 1, root[1], root[2] >>,
      initialized |-> FALSE,
      mos_root_device_coord |-> root,
      mos_period_device_coord |-> << root[1] + 1, root[2] + 2 >>,
      mos_generator_device_coord |-> << root[1] + 1, root[2] + 1 >>,
      mos_period |-> <<1, 1>>,
      mos_generator |-> <<1, 0>> ]

RectDeltasCopied ==
    [ shift_left |-> <<1, 0, 0, 1, -1, 0>>,
      shift_right |-> <<1, 0, 0, 1, 1, 0>>,
      shift_up |-> <<1, 0, 0, 1, 0, 1>>,
      shift_down |-> <<1, 0, 0, 1, 0, -1>>,
      skew_left |-> <<1, -1, 0, 1, 0, 0>>,
      skew_right |-> <<1, 1, 0, 1, 0, 0>>,
      rotate_left |-> <<0, -1, 1, 0, 0, 0>>,
      rotate_right |-> <<0, -1, 1, 0, 0, 0>>,
      reflect_horizontal |-> <<1, 0, 0, -1, 0, 0>>,
      reflect_vertical |-> <<-1, 0, 0, 1, 0, 0>> ]

RectDeltas ==
    [ shift_left |-> <<1, 0, 0, 1, -1, 0>>,
      shift_right |-> <<1, 0, 0, 1, 1, 0>>,
      shift_up |-> <<1, 0, 0, 1, 0, 1>>,
      shift_down |-> <<1, 0, 0, 1, 0, -1>>,
      skew_left |-> <<1, -1, 0, 1, 0, 0>>,
      skew_right |-> <<1, 1, 0, 1, 0, 0>>,
      rotate_left |-> <<0, -1, 1, 0, 0, 0>>,
      rotate_right |-> <<0, 1, -1, 0, 0, 0>>,
      reflect_horizontal |-> <<1, 0, 0, -1, 0, 0>>,
      reflect_vertical |-> <<-1, 0, 0, 1, 0, 0>> ]

HexDeltasTypo ==
    [ shift_left |-> <<1, 0, 0, 1, -1, 0>>,
      shift_right |-> <<1, 0, 0, 1, 1, 0>>,
      shift_upright |-> <<1, 0, 0, 1, 0, 1>>,
      shift_downleft |-> <<1, 0, 0, 1, 0, -1>>,
      shift_upleft |-> <<1, 0, 0, 1, -1, 1>>,
      shift_downright |-> <<1, 0, 0, 1, 1, -1>>,
      skew_left |-> <<1, -1, 0, 1, 0, 0>>,
      skew_right |-> <<1, 1, 0, 1, 0, 0>>,
      skew_upright |-> <<1, 0, -1, 1, 0, 0>>,
      skew_downleft |-> <<1, 0, 1, 1, 0, 0>>,
      skew_upleft |-> <<2, 1, -1, 1, 0, 0>>,
      skew_downright |-> <<0, -1, 1, 2, 0, 0>>,
      rotate_left_hex |-> <<0, -1, 1, 1, 0, 0>>,
      rotate_right_hex |-> <<1, 1, -1, 0, 0, 0>>,
      reflect_x_hex |-> <<1, 1, 0, -1, 0, 0>>,
      reflect_y_hex |-> <<-1, 0, 1, 1, 0, 0>>,
      reflect_xy_hex |-> <<0, -1, -1, 0, 0, 0>> ]

HexDeltas ==
    [ shift_left |-> <<1, 0, 0, 1, -1, 0>>,
      shift_right |-> <<1, 0, 0, 1, 1, 0>>,
      shift_upright |-> <<1, 0, 0, 1, 0, 1>>,
      shift_downleft |-> <<1, 0, 0, 1, 0, -1>>,
      shift_upleft |-> <<1, 0, 0, 1, -1, 1>>,
      shift_downright |-> <<1, 0, 0, 1, 1, -1>>,
      skew_left |-> <<1, -1, 0, 1, 0, 0>>,
      skew_right |-> <<1, 1, 0, 1, 0, 0>>,
      skew_upright |-> <<1, 0, -1, 1, 0, 0>>,
      skew_downleft |-> <<1, 0, 1, 1, 0, 0>>,
      skew_upleft |-> <<2, 1, -1, 0, 0, 0>>,
      skew_downright |-> <<0, -1, 1, 2, 0, 0>>,
      rotate_left_hex |-> <<0, -1, 1, 1, 0, 0>>,
      rotate_right_hex |-> <<1, 1, -1, 0, 0, 0>>,
      reflect_x_hex |-> <<1, 1, 0, -1, 0, 0>>,
      reflect_y_hex |-> <<-1, 0, 1, 1, 0, 0>>,
      reflect_xy_hex |-> <<0, -1, -1, 0, 0, 0>> ]

IsoDeltas(calc) == IF calc.quad_or_hex = "rect" THEN RectDeltas ELSE HexDeltas

IsoApplyTransformationAroundOrigin(calc, kind) ==
    IF kind \notin DOMAIN IsoDeltas(calc) THEN calc
    ELSE [ calc EXCEPT !.mapping_transform =
             ApplyAffine(IsoDeltas(calc)[kind], calc.mapping_transform) ]

\* IsomorphicLayout.apply_transformation
IsoApplyTransformation(calc, kind) ==
    IF kind \notin DOMAIN IsoDeltas(calc) THEN calc
    ELSE LET M == calc.mapping_transform
             M_trans == << 1, 0, 0, 1, M[5], M[6] >>
             M_mat == << M[1], M[2], M[3], M[4], 0, 0 >>
         IN [ calc EXCEPT !.mapping_transform =
                ApplyAffine(M_trans, ApplyAffine(IsoDeltas(calc)[kind], M_mat)) ]

\* First calculate_mapping with a MOS: fit, keep the translation.
IsoInitialize(calc, mos) ==
    LET p2 == << mos.a, mos.b >>
        fit == AffineFromThreeDots(p2, mos.v_gen, calc.mos_root_device_coord,
                                   calc.mos_period_device_coord,
                                   calc.mos_generator_device_coord)
        M == calc.mapping_transform
    IN IF FitDet(p2, mos.v_gen) = 0
       THEN [ calc EXCEPT !.initialized = TRUE ]
       ELSE [ calc EXCEPT !.initialized = TRUE,
                          !.mapping_transform =
                              << fit[1], fit[2], fit[3], fit[4], M[5], M[6] >>,
                          !.mos_period = p2,
                          !.mos_generator = mos.v_gen ]

IsoRetuneOntoStoredAnchors(calc, mos) ==
    LET p2 == << mos.a, mos.b >>
    IN IF FitDet(p2, mos.v_gen) = 0 THEN calc
       ELSE [ calc EXCEPT
                !.mapping_transform =
                    AffineFromThreeDots(p2, mos.v_gen,
                                        calc.mos_root_device_coord,
                                        calc.mos_period_device_coord,
                                        calc.mos_generator_device_coord),
                !.mos_period = p2,
                !.mos_generator = mos.v_gen ]

\* Later calculate_mapping with a changed period or generator: refit onto
\* the pads the current transform gives to origin, period and generator.
IsoRetune(calc, mos) ==
    LET M == calc.mapping_transform
        p2 == << mos.a, mos.b >>
        q1 == Apply(M, <<0, 0>>)
        q2 == Apply(M, calc.mos_period)
        q3 == Apply(M, calc.mos_generator)
        anchored == [ calc EXCEPT !.mos_root_device_coord = q1,
                                  !.mos_period_device_coord = q2,
                                  !.mos_generator_device_coord = q3 ]
    IN IF FitDet(p2, mos.v_gen) = 0
       THEN anchored
       ELSE [ anchored EXCEPT
                !.mapping_transform =
                    AffineFromThreeDots(p2, mos.v_gen, q1, q2, q3),
                !.mos_period = p2,
                !.mos_generator = mos.v_gen ]

\* The range test of the isomorphic and string-like calculators.
InMidiRange(note) == 0 <= note /\ note <= 127

IsoMosCoordinateForward(calc, pad) ==
    IF Invertible(calc.mapping_transform)
    THEN Apply(calc.mapping_transform, pad)
    ELSE <<0, 0>>

\* IsomorphicLayout.get_mos_coordinate
IsoMosCoordinate(calc, pad) ==
    \* inverse() of a unimodular transform.
    LET Inverse(M) ==
            LET e == Det(M)
                ia == M[4] * e
                ib == (0 - M[2]) * e
                ic == (0 - M[3]) * e
                id == M[1] * e
            IN << ia, ib, ic, id,
                  0 - (ia * M[5] + ib * M[6]), 0 - (ic * M[5] + id * M[6]) >>
    IN
        IF Invertible(calc.mapping_transform)
        THEN Apply(Inverse(calc.mapping_transform), pad)
        ELSE <<0, 0>>

\* IsomorphicLayout.calculate_mapping
IsoCalculateMapping(calc, pads, tun) ==
    \* The calculator before the pads are looked up: fitted at the first
    \* call with a MOS, fitted again when the MOS changed.
    LET IsoPrepare ==
            IF ~tun.has_mos THEN calc
            ELSE IF ~calc.initialized THEN IsoInitialize(calc, tun.mos)
            ELSE IF calc.mos_period # << tun.mos.a, tun.mos.b >>
                    \/ calc.mos_generator # tun.mos.v_gen
                 THEN IsoRetune(calc, tun.mos)
                 ELSE calc
    IN
        LET c1 == IsoPrepare
            hit == { pad \in pads :
                       /\ IsoMosCoordinate(c1, pad) \in DOMAIN tun.table
                       /\ InMidiRange(tun.table[IsoMosCoordinate(c1, pad)]) }
        IN IF tun.steps = 0 THEN [ calc |-> calc, mapping |-> EmptyMap ]
           ELSE IF ~Invertible(c1.mapping_transform)
           THEN [ calc |-> c1, mapping |-> EmptyMap ]
           ELSE [ calc |-> c1,
                  mapping |-> [ pad \in hit |->
                                  tun.table[IsoMosCoordinate(c1, pad)] ] ]

(***************************************************************************)
(* StringLikeLayout                                                        *)
(***************************************************************************)
NewStringLikeLayout(root) ==
    [ kind |-> "string_like",
      root_x |-> root[1], root_y |-> root[2],
      row_offset |-> 5,
      flip_horizontal |-> FALSE, flip_vertical |-> FALSE,
      index_to_mos_coord |-> EmptyMap ]

\* The reverse lookup of each tuning state's table.
IndexToMosCoord ==
    \* StringLikeLayout._build_reverse_lookup
    LET BuildReverseLookup(table) ==
            [ i \in { table[c] : c \in DOMAIN table } |->
                CHOOSE c \in DOMAIN table : table[c] = i ]
    IN
        [ t \in DOMAIN Tunings |-> BuildReverseLookup(Tunings[t].table) ]

GetScaleIndexNoFlip(calc, pad) ==
    LET x_delta == IF calc.flip_horizontal THEN 0 - (pad[1] - calc.root_x)
                   ELSE pad[1] - calc.root_x
        y_delta == pad[2] - calc.root_y
    IN (y_delta * calc.row_offset) + x_delta + 60

\* StringLikeLayout._get_scale_index
GetScaleIndex(calc, pad) ==
    LET x_delta == IF calc.flip_horizontal THEN 0 - (pad[1] - calc.root_x)
                   ELSE pad[1] - calc.root_x
        y_delta == IF calc.flip_vertical THEN 0 - (pad[2] - calc.root_y)
                   ELSE pad[2] - calc.root_y
    IN (y_delta * calc.row_offset) + x_delta + 60

\* StringLikeLayout.get_mos_coordinate: dict.get, None when absent.
NoCoord == << >>

(***************************************************************************)
(* PianoLikeLayout                                                         *)
(***************************************************************************)
Min(a, b) == IF a < b THEN a ELSE b

Max(a, b) == IF a > b THEN a ELSE b

MinY(pads) == CHOOSE y \in { p[2] : p \in pads } : \A p \in pads : y <= p[2]

MaxY(pads) == CHOOSE y \in { p[2] : p \in pads } : \A p \in pads : y >= p[2]

\* The lattice coordinate of one pad of a complete strip.
PianoMosCoord(calc, pads, mos, pad) ==
    LET y_from_bottom == pad[2] - MinY(pads)
        strip_number == y_from_bottom \div calc.strip_width
        y_within_strip == (y_from_bottom % calc.strip_width)
                            - calc.scale_row_index
        scale_degree == pad[1] - calc.root_x + strip_number * calc.row_offset
        accidental_sign == IF mos.L_vec_x = 1 THEN 1 ELSE -1
        neutral_mode == IF mos.L_vec_x = 1 THEN 1 ELSE mos.n0 - 2
        accidental == accidental_sign * y_within_strip
        q == (neutral_mode - mos.a0 * scale_degree) \div mos.n
        scale_coord_x == accidental - q
    IN << scale_coord_x, scale_degree - scale_coord_x >>

(***************************************************************************)
(* PGIsomapApp._recalculate_layout: the calculation                        *)
(***************************************************************************)
LayoutTypes == { "isomorphic", "string_like", "piano_like" }

NeedsNewCalculatorAlways(ltype, calc) == TRUE

\* needs_new_calculator: there is none, or it is not an instance of the
\* class of the configured layout type.
NeedsNewCalculator(ltype, calc) ==
    calc.kind = "none" \/ (ltype \in LayoutTypes /\ calc.kind # ltype)

NewCalculator(ltype, c) ==
    LET NewPianoLikeLayout(root) ==
            [ kind |-> "piano_like",
              root_x |-> root[1], root_y |-> root[2],
              strip_width |-> 2,
              scale_row_index |-> 0,
              row_offset |-> 7,
              pad_to_mos_coord |-> EmptyMap,
              controller_rows |-> 0 ]
    IN
        CASE ltype = "isomorphic" -> NewIsomorphicLayout(DefaultRoot(c))
          [] ltype = "string_like" -> NewStringLikeLayout(DefaultRoot(c))
          [] ltype = "piano_like" -> NewPianoLikeLayout(DefaultRoot(c))

CalculateMapping(calc, pads, tun) ==
    \* PianoLikeLayout.calculate_mapping
    \* PianoLikeLayout.calculate_mapping
    LET PianoCalculateMapping ==
            \* The pads of the complete strips (the remainder rows at the top are skipped).
            LET PianoStripPads(c, ps) ==
                    LET strip_rows == MaxY(ps) - MinY(ps) + 1
                        num_complete_strips == strip_rows \div c.strip_width
                    IN { pad \in ps :
                           pad[2] - MinY(ps) < num_complete_strips * c.strip_width }
            IN
                \* The entry stored for a pad of a complete strip.
                LET PianoEntry(table, coord) ==
                        IF coord \in DOMAIN table THEN table[coord] ELSE None
                IN
                    LET cleared == [ calc EXCEPT !.pad_to_mos_coord = EmptyMap ]
                        rows == MaxY(pads) - MinY(pads) + 1
                        c1 == [ cleared EXCEPT !.controller_rows = rows ]
                        strip == PianoStripPads(c1, pads)
                    IN IF ~tun.has_mos THEN [ calc |-> cleared, mapping |-> EmptyMap ]
                       ELSE IF pads = {}
                       THEN [ calc |-> [ cleared EXCEPT !.controller_rows = 0 ],
                              mapping |-> EmptyMap ]
                       ELSE [ calc |-> [ c1 EXCEPT !.pad_to_mos_coord =
                                           [ pad \in strip |->
                                               PianoMosCoord(c1, pads, tun.mos, pad) ] ],
                              mapping |-> [ pad \in strip |->
                                              PianoEntry(tun.table,
                                                  PianoMosCoord(c1, pads, tun.mos, pad)) ] ]
    IN
        \* StringLikeLayout.calculate_mapping
        \* StringLikeLayout.calculate_mapping
        LET StringCalculateMapping ==
                LET c1 == [ calc EXCEPT !.index_to_mos_coord = IndexToMosCoord[tun.id] ]
                    hit == { pad \in pads :
                               /\ GetScaleIndex(c1, pad) \in DOMAIN c1.index_to_mos_coord
                               /\ InMidiRange(GetScaleIndex(c1, pad)) }
                IN [ calc |-> c1,
                     mapping |-> [ pad \in hit |-> GetScaleIndex(c1, pad) ] ]
        IN
            CASE calc.kind = "isomorphic" -> IsoCalculateMapping(calc, pads, tun)
              [] calc.kind = "string_like" -> StringCalculateMapping
              [] calc.kind = "piano_like" -> PianoCalculateMapping

\* The calculator after the call, the forward table and the reverse table
\* that _recalculate_layout hands to update_note_mapping.
Recalculation(c, ltype, calc, tun) ==
    LET calc1 == IF NeedsNewCalculator(ltype, calc)
                 THEN NewCalculator(ltype, c) ELSE calc
        res == CalculateMapping(calc1, Controllers[c].pads, tun)
    IN [ calc |-> res.calc, mapping |-> res.mapping,
         reverse |-> BuildControllerNoteMapping(c) ]

\* current_layout_calculator.apply_transformation(transformation_type)
CalculatorApplyTransformation(calc, kind) ==
    \* PianoLikeLayout.apply_transformation
    LET PianoApplyTransformation ==
            LET PianoClampRow(c0) ==
                    IF c0.scale_row_index >= c0.strip_width
                    THEN [ c0 EXCEPT !.scale_row_index = c0.strip_width - 1 ]
                    ELSE c0
            IN
                CASE kind = "shift_left" -> [ calc EXCEPT !.root_x = @ - 1 ]
                  [] kind = "shift_right" -> [ calc EXCEPT !.root_x = @ + 1 ]
                  [] kind = "shift_up" -> [ calc EXCEPT !.root_y = @ + 1 ]
                  [] kind = "shift_down" -> [ calc EXCEPT !.root_y = @ - 1 ]
                  [] kind = "skew_left" -> [ calc EXCEPT !.row_offset = @ - 1 ]
                  [] kind = "skew_right" -> [ calc EXCEPT !.row_offset = @ + 1 ]
                  [] kind = "increase_strip_width" ->
                        PianoClampRow([ calc EXCEPT !.strip_width =
                            Min(@ + 1, IF calc.controller_rows > 0
                                       THEN calc.controller_rows ELSE 6) ])
                  [] kind = "decrease_strip_width" ->
                        PianoClampRow([ calc EXCEPT !.strip_width = Max(@ - 1, 1) ])
                  [] kind = "scale_row_up" ->
                        [ calc EXCEPT !.scale_row_index = Min(@ + 1, calc.strip_width - 1) ]
                  [] kind = "scale_row_down" ->
                        [ calc EXCEPT !.scale_row_index = Max(@ - 1, 0) ]
                  [] OTHER -> calc
    IN
        \* StringLikeLayout.apply_transformation
        LET StringApplyTransformation ==
                CASE kind = "shift_left" -> [ calc EXCEPT !.root_x = @ - 1 ]
                  [] kind = "shift_right" -> [ calc EXCEPT !.root_x = @ + 1 ]
                  [] kind = "shift_up" -> [ calc EXCEPT !.root_y = @ + 1 ]
                  [] kind = "shift_down" -> [ calc EXCEPT !.root_y = @ - 1 ]
                  [] kind = "skew_left" -> [ calc EXCEPT !.row_offset = @ - 1 ]
                  [] kind = "skew_right" -> [ calc EXCEPT !.row_offset = @ + 1 ]
                  [] kind = "reflect_vertical" -> [ calc EXCEPT !.flip_vertical = ~@ ]
                  [] kind = "reflect_horizontal" -> [ calc EXCEPT !.flip_horizontal = ~@ ]
                  [] OTHER -> calc
        IN
            CASE calc.kind = "isomorphic" -> IsoApplyTransformation(calc, kind)
              [] calc.kind = "string_like" -> StringApplyTransformation
              [] calc.kind = "piano_like" -> PianoApplyTransformation

\* current_layout_calculator.get_mos_coordinate(x, y)
GetMosCoordinate(calc, pad) ==
    \* PianoLikeLayout.get_mos_coordinate: dict.get, None when absent.
    LET PianoMosCoordinate ==
            IF pad \in DOMAIN calc.pad_to_mos_coord
            THEN calc.pad_to_mos_coord[pad]
            ELSE NoCoord
    IN
        LET StringMosCoordinate ==
                IF GetScaleIndex(calc, pad) \in DOMAIN calc.index_to_mos_coord
                THEN calc.index_to_mos_coord[GetScaleIndex(calc, pad)]
                ELSE NoCoord
        IN
            CASE calc.kind = "isomorphic" -> IsoMosCoordinate(calc, pad)
              [] calc.kind = "string_like" -> StringMosCoordinate
              [] calc.kind = "piano_like" -> PianoMosCoordinate

\* Two results of _recalculate_layout handed to update_note_mapping while
\* the remap thread runs: the isomorphic and the piano-like layout of the
\* 3x3 grid under the 5L2s tuning.
InstallationOf(ltype) ==
    LET r == Recalculation("Grid3x3", ltype, NoCalculator, Tunings[2])
    IN [ fwd |-> r.mapping, rev |-> r.reverse ]

Installations ==
    << InstallationOf("isomorphic"), InstallationOf("piano_like") >>

(***************************************************************************)
(* MIDIHandler._midi_callback                                              *)
(***************************************************************************)
QueuePutFront(q, item) ==
    IF Len(q) < QueueMaxSize THEN << item >> \o q ELSE q

\* queue.Queue.put_nowait: append unless full; Full is caught and logged.
QueuePut(q, item) ==
    IF Len(q) < QueueMaxSize THEN Append(q, item) ELSE q

MidiCallback(m) ==
    /\ clock' = clock + 1
    /\ message_queue' = QueuePut(message_queue, <<m, clock + 1>>)
    /\ queue_drops' = IF message_queue' = Append(message_queue, <<m, clock + 1>>)
                      THEN queue_drops ELSE queue_drops + 1
    /\ drained' = drained
    /\ UNCHANGED << hVars, tVars, rVars, uVars, lVars, sVars, oVars, iVars, fVars, kVars,
                    dVars >>

(***************************************************************************)
(* PGIsomapApp.start: initialize_virtual_port, then MIDIHandler.start      *)
(***************************************************************************)
(***************************************************************************)
(* MIDIHandler.update_note_mapping: two attribute assignments              *)
(***************************************************************************)
UpdateNoteMappingBegin(k) ==
    /\ pc_update = "idle"
    /\ installs' = installs + 1
    /\ note_mapping' = Installations[k].fwd
    /\ note_mapping_inst' = installs + 1
    /\ update_arg' = k
    /\ pc_update' = "mid"
    /\ stable_since_get' = FALSE
    /\ UNCHANGED << lVars, sVars, oVars, iVars, fVars, kVars,
                    dVars >>
    /\ UNCHANGED << hVars, qVars, reverse_mapping, reverse_mapping_inst,
                    pc_remap, message, logical_coord, mapped_note,
                    used_rev_inst, used_fwd_inst, out_at_get,
                    messages_processed, notes_remapped, virt_out,
                    timestamp, virt_at, loop_errors, callback_errors >>

UpdateNoteMappingEnd ==
    /\ pc_update = "mid"
    /\ reverse_mapping' = Installations[update_arg].rev
    /\ reverse_mapping_inst' = installs
    /\ pc_update' = "idle"
    /\ stable_since_get' = FALSE
    /\ UNCHANGED << lVars, sVars, oVars, iVars, fVars, kVars,
                    dVars >>
    /\ UNCHANGED << hVars, qVars, note_mapping, note_mapping_inst,
                    update_arg, installs,
                    pc_remap, message, logical_coord, mapped_note,
                    used_rev_inst, used_fwd_inst, out_at_get,
                    messages_processed, notes_remapped, virt_out,
                    timestamp, virt_at, loop_errors, callback_errors >>

(***************************************************************************)
(* MIDIHandler._processing_loop                                            *)
(***************************************************************************)
Status(m) == IF Len(m) > 0 THEN (m[1] \div 16) * 16 ELSE 0

IsNoteMessage(m) == Len(m) >= 3 /\ Status(m) \in {NOTE_ON, NOTE_OFF}

\* midi_out.send_message on the virtual output, by the remap thread.
VirtualSend(bytes, kind, src) ==
    IF midi_out = "open"
    THEN Append(virt_out, [bytes |-> bytes, by |-> "remap", kind |-> kind,
                           src |-> src])
    ELSE virt_out

\* The arrival numbers of the messages handed over, once out is the output.
VirtAt(out, at) ==
    IF Len(out) > Len(virt_out) THEN Append(virt_at, at) ELSE virt_at

\* The else branches of the two lookups: log at info level, send nothing.
UnmappedNotePassThrough(m) == VirtualSend(m, "pass", m)

UnmappedNote(m) == virt_out

\* The bytes of a non-note message as handed to send_message.
PassThroughStatusOnly(m) == [i \in DOMAIN m |-> IF i = 1 THEN Status(m) ELSE m[i]]

PassThrough(m) == m

\* queue.get, the midi_out test, the note test and the pass-through branch.
RemapGet ==
    /\ pc_remap = "get"
    /\ running
    /\ message_queue # << >>
    /\ message_queue' = Tail(message_queue)
    /\ drained' = drained + 1
    /\ UNCHANGED << clock, queue_drops >>
    /\ LET m == Head(message_queue)[1] IN
       IF midi_out = "none"
       THEN UNCHANGED rVars
       ELSE /\ message' = m
            /\ timestamp' = Head(message_queue)[2]
            /\ stable_since_get' = TRUE
            /\ out_at_get' = Len(virt_out)
            /\ IF IsNoteMessage(m)
               THEN /\ pc_remap' = "rev_in"
                    /\ UNCHANGED << virt_out, messages_processed >>
               ELSE /\ pc_remap' = "get"
                    /\ virt_out' = VirtualSend(PassThrough(m), "pass", m)
                    /\ messages_processed' = messages_processed + 1
            /\ virt_at' = VirtAt(virt_out', Head(message_queue)[2])
            /\ UNCHANGED << logical_coord, mapped_note, used_rev_inst,
                            used_fwd_inst, notes_remapped, loop_errors,
                            callback_errors >>
    /\ UNCHANGED << hVars, tVars, uVars, lVars, sVars, oVars, iVars, fVars, kVars,
                    dVars >>

\* if controller_note in self.reverse_mapping
RemapReverseTest ==
    /\ pc_remap = "rev_in"
    /\ IF message[2] \in DOMAIN reverse_mapping
       THEN pc_remap' = "rev_get" /\ virt_out' = virt_out
       ELSE pc_remap' = "get" /\ virt_out' = UnmappedNote(message)
    /\ virt_at' = VirtAt(virt_out', timestamp)
    /\ UNCHANGED << message, logical_coord, mapped_note, used_rev_inst,
                    used_fwd_inst, stable_since_get, out_at_get,
                    messages_processed, notes_remapped, timestamp,
                    loop_errors, callback_errors >>
    /\ UNCHANGED << hVars, qVars, tVars, uVars, lVars, sVars, oVars, iVars, fVars, kVars,
                    dVars >>

\* logical_coord = self.reverse_mapping[controller_note]; a KeyError ends
\* the iteration in the handler at the bottom of the loop.
RemapReverseGet ==
    /\ pc_remap = "rev_get"
    /\ IF message[2] \in DOMAIN reverse_mapping
       THEN /\ logical_coord' = reverse_mapping[message[2]]
            /\ used_rev_inst' = reverse_mapping_inst
            /\ pc_remap' = "fwd_in"
       ELSE /\ pc_remap' = "get"
            /\ UNCHANGED << logical_coord, used_rev_inst >>
    /\ loop_errors' = IF message[2] \in DOMAIN reverse_mapping
                      THEN loop_errors ELSE loop_errors + 1
    /\ UNCHANGED << message, mapped_note, used_fwd_inst, stable_since_get,
                    out_at_get, messages_processed, notes_remapped, virt_out,
                    timestamp, virt_at, callback_errors >>
    /\ UNCHANGED << hVars, qVars, tVars, uVars, lVars, sVars, oVars, iVars, fVars, kVars,
                    dVars >>

\* if logical_coord in self.note_mapping
RemapForwardTest ==
    /\ pc_remap = "fwd_in"
    /\ IF logical_coord \in DOMAIN note_mapping
       THEN pc_remap' = "fwd_get" /\ virt_out' = virt_out
       ELSE pc_remap' = "get" /\ virt_out' = UnmappedNote(message)
    /\ virt_at' = VirtAt(virt_out', timestamp)
    /\ UNCHANGED << message, logical_coord, mapped_note, used_rev_inst,
                    used_fwd_inst, stable_since_get, out_at_get,
                    messages_processed, notes_remapped, timestamp,
                    loop_errors, callback_errors >>
    /\ UNCHANGED << hVars, qVars, tVars, uVars, lVars, sVars, oVars, iVars, fVars, kVars,
                    dVars >>

\* mapped_note = self.note_mapping[logical_coord]
RemapForwardGet ==
    /\ pc_remap = "fwd_get"
    /\ IF logical_coord \in DOMAIN note_mapping
       THEN /\ mapped_note' = note_mapping[logical_coord]
            /\ used_fwd_inst' = note_mapping_inst
            /\ pc_remap' = "emit"
       ELSE /\ pc_remap' = "get"
            /\ UNCHANGED << mapped_note, used_fwd_inst >>
    /\ loop_errors' = IF logical_coord \in DOMAIN note_mapping
                      THEN loop_errors ELSE loop_errors + 1
    /\ UNCHANGED << message, logical_coord, used_rev_inst, stable_since_get,
                    out_at_get, messages_processed, notes_remapped, virt_out,
                    timestamp, virt_at, callback_errors >>
    /\ UNCHANGED << hVars, qVars, tVars, uVars, lVars, sVars, oVars, iVars, fVars, kVars,
                    dVars >>

NoteEventEscapes(raises) == raises

\* try: self.on_note_event(...) except Exception: logger.error(...): whether
\* an exception of the callback leaves the try statement.
NoteEventLeavesTry(raises) == FALSE

\* on_note_event, send_message, the counters; raises: the callback raised.
\* send_message raises on a note that is not an integer; the handler at the
\* bottom of the loop logs that and the counters are not reached.
RemapEmitNote(raises) ==
    \* The message the hit branch builds: [message[0], mapped_note, velocity].
    LET RemappedMessage(m, note) ==
            << m[1], note, m[3] >>
    IN
        /\ pc_remap = "emit"
        /\ pc_remap' = "get"
        /\ callback_errors' = IF raises THEN callback_errors + 1
                              ELSE callback_errors
        /\ IF NoteEventLeavesTry(raises) \/ mapped_note = None
           THEN /\ loop_errors' = loop_errors + 1
                /\ UNCHANGED << virt_out, notes_remapped, messages_processed >>
           ELSE /\ virt_out' = VirtualSend(RemappedMessage(message, mapped_note),
                                           "remap", message)
                /\ notes_remapped' = notes_remapped + 1
                /\ messages_processed' = messages_processed + 1
                /\ loop_errors' = loop_errors
        /\ virt_at' = VirtAt(virt_out', timestamp)
        /\ UNCHANGED << message, logical_coord, mapped_note, used_rev_inst,
                        used_fwd_inst, stable_since_get, out_at_get, timestamp >>
        /\ UNCHANGED << hVars, qVars, tVars, uVars, lVars, sVars, oVars, iVars, fVars, kVars,
                        dVars >>

\* The callback raises or returns; it raises at most MaxCallbackErrors times.
RemapEmit ==
    \E raises \in BOOLEAN :
        /\ raises => callback_errors < MaxCallbackErrors
        /\ RemapEmitNote(raises)

(***************************************************************************)
(* PGIsomapApp.trigger_note, MIDIHandler.send_note_on / send_note_off      *)
(***************************************************************************)
\* trigger_note, called by the /api/trigger_note handler: a pad that is not
\* a key of note_mapping returns False; otherwise the note is sent.
TriggerNote(coord, velocity, note_on) ==
    \* send_note_on / send_note_off: return without sending when the port is
    \* not initialized or the note is out of range (None fails the comparison
    \* and the request ends with an exception); otherwise send_message is
    \* called right here, on the thread of the caller.
    LET SendNote(n0, v0, on0) ==
            \* The message send_note_on / send_note_off build for channel 0.
            LET NoteMessage(n, v, on) ==
                    IF on THEN << NOTE_ON, n, v >> ELSE << NOTE_OFF, n, 0 >>
            IN
                IF midi_out = "open" /\ InMidiRange(n0)
                THEN Append(virt_out, [bytes |-> NoteMessage(n0, v0, on0),
                                       by |-> "ui", kind |-> "trigger",
                                       src |-> << >>])
                ELSE virt_out
    IN
        /\ IF coord \notin DOMAIN note_mapping
           THEN UNCHANGED virt_out
           ELSE virt_out' = SendNote(note_mapping[coord], velocity, note_on)
        /\ virt_at' = VirtAt(virt_out', 0)
        /\ UNCHANGED << message, pc_remap, logical_coord, mapped_note,
                        used_rev_inst, used_fwd_inst, stable_since_get,
                        out_at_get, messages_processed, notes_remapped,
                        timestamp, loop_errors, callback_errors >>
        /\ UNCHANGED << hVars, qVars, tVars, uVars, lVars, sVars, oVars, iVars, fVars, kVars,
                        dVars >>

(***************************************************************************)
(* MIDIHandler.cancel_color_send and the color-send workers                *)
(***************************************************************************)
CancelColorSendKeeps(g) == g

\* with self._color_send_lock: self._color_send_generation += 1
CancelColorSend(g) == g + 1

CancelColorSendReturnStale(g1) == g1 - 1

\* return self._color_send_generation, still under the lock: g1 is the
\* counter after the increment.
CancelColorSendReturn(g1) == g1

InFlight(w) == w.pc \in { "start", "check", "locked", "send" }

\* _send_pad_colors_worker up to its first send_raw_bytes: it returns when
\* there is no controller, no color template or no controller output;
\* otherwise it renders one SetPadColor message for every pad.
WorkerStart(w) ==
    /\ w \in DOMAIN workers
    /\ workers[w].pc = "start"
    /\ workers' =
         IF \/ current_controller = "none"
            \/ ~Controllers[current_controller].set_pad_color
            \/ ~controller_out
         THEN [ workers EXCEPT ![w].pc = "done" ]
         ELSE [ workers EXCEPT
                  ![w].pc = "check",
                  ![w].n = Cardinality(Controllers[current_controller].pads) ]
    /\ UNCHANGED << controller_port, controller_out, color_send_generation,
                    ctrl_out, cancel_returns >>
    /\ UNCHANGED << hVars, qVars, tVars, rVars, uVars, lVars, oVars,
                    iVars, fVars, kVars, dVars >>

\* send_raw_bytes, the test made under the lock before each message.
GenerationCheckFirstOnly(w) ==
    workers[w].i > 0 \/ color_send_generation = workers[w].generation

GenerationCheckPasses(w) ==
    color_send_generation = workers[w].generation

\* with self._color_send_lock: if generation differs: return
WorkerCheck(w) ==
    /\ w \in DOMAIN workers
    /\ workers[w].pc = "check"
    /\ workers' = IF GenerationCheckPasses(w)
                  THEN [ workers EXCEPT ![w].pc = "send" ]
                  ELSE [ workers EXCEPT ![w].pc = "cancelled" ]
    /\ UNCHANGED << controller_port, controller_out, color_send_generation,
                    ctrl_out, cancel_returns >>
    /\ UNCHANGED << hVars, qVars, tVars, rVars, uVars, lVars, oVars,
                    iVars, fVars, kVars, dVars >>

\* self.controller_out.send_message(msg), after the lock was released.
ControllerSend(g, idx, w) ==
    Append(ctrl_out, [ generation |-> g, idx |-> idx, worker |-> w ])

WorkerSend(w) ==
    /\ w \in DOMAIN workers
    /\ workers[w].pc = "send"
    /\ ctrl_out' = ControllerSend(workers[w].generation, workers[w].i + 1, w)
    /\ workers' = [ workers EXCEPT
                      ![w].i = @ + 1,
                      ![w].pc = IF workers[w].i + 1 = workers[w].n
                                THEN "done" ELSE "check" ]
    /\ UNCHANGED << controller_port, controller_out, color_send_generation,
                    cancel_returns >>
    /\ UNCHANGED << hVars, qVars, tVars, rVars, uVars, lVars, oVars,
                    iVars, fVars, kVars, dVars >>

(***************************************************************************)
(* PGIsomapApp: the handlers that end in _recalculate_layout               *)
(***************************************************************************)
\* What no coordinator handler touches.
CoordinatorFrame ==
    UNCHANGED << hVars, qVars, pc_remap, message, logical_coord, mapped_note,
                 used_rev_inst, used_fwd_inst, out_at_get, messages_processed,
                 notes_remapped, virt_out, timestamp, virt_at, loop_errors,
                 callback_errors, pc_update,
                 update_arg, iVars, fVars, kVars, pVars >>

\* The end of _recalculate_layout: update_note_mapping with the tables of
\* r, broadcast_status_update, _send_pad_colors_async.
UpdateAndSend(r) ==
    \* _send_pad_colors_async: take a new generation, start ColorSend-<generation>.
    LET NewWorker(g) ==
            [ generation |-> g, pc |-> "start", i |-> 0, n |-> 0 ]
        generation == CancelColorSendReturn(
                          CancelColorSend(color_send_generation))
    IN /\ note_mapping' = r.mapping
       /\ reverse_mapping' = r.reverse
       /\ installs' = installs + 1
       /\ note_mapping_inst' = installs + 1
       /\ reverse_mapping_inst' = installs + 1
       /\ stable_since_get' = FALSE
       /\ status_events' = status_events + 1
       /\ color_send_generation' = CancelColorSend(color_send_generation)
       /\ cancel_returns' = Append(cancel_returns, generation)
       /\ workers' = Append(workers, NewWorker(generation))

\* _recalculate_layout for controller c, layout type ltype, calculator calc0
\* and tuning state tun: return early without a controller; else calculate,
\* update_note_mapping, broadcast_status_update, _send_pad_colors_async.
RecalculateLayout(c, ltype, calc0, tun) ==
    IF c = "none"
    THEN /\ calculator' = calc0
         /\ UNCHANGED << tVars, installs, stable_since_get,
                         color_send_generation, workers, cancel_returns,
                         status_events >>
    ELSE LET r == Recalculation(c, ltype, calc0, tun)
         IN /\ calculator' = r.calc
            /\ UpdateAndSend(r)

SwitchControllerKeepsCalculator(c) ==
    /\ IF c \notin ControllerNames
       THEN /\ switch_call' = [ device_name |-> c, success |-> FALSE ]
            /\ UNCHANGED << controller_port, controller_out,
                            current_controller, connected_port_name,
                            calculator, tVars, installs, stable_since_get,
                            color_send_generation, workers, cancel_returns,
                            status_events >>
       ELSE /\ switch_call' = [ device_name |-> c, success |-> TRUE ]
            /\ controller_port' = FALSE
            /\ controller_out' = FALSE
            /\ current_controller' = c
            /\ connected_port_name' = "none"
            /\ RecalculateLayout(c, layout_type, calculator, Tunings[tuning])
    /\ switches' = switches + 1
    /\ last_handler' = "switch_controller"
    /\ UNCHANGED << layout_type, tuning, edits, retunes, ctrl_out, oVars >>
    /\ CoordinatorFrame

\* web_api switch_controller: without a configuration of that name reply
\* success False; else disconnect the MIDI ports, take the configuration,
\* drop the calculator, recalculate and reply success True.
SwitchController(c) ==
    /\ IF c \notin ControllerNames
       THEN /\ switch_call' = [ device_name |-> c, success |-> FALSE ]
            /\ UNCHANGED << controller_port, controller_out,
                            current_controller, connected_port_name,
                            calculator, tVars, installs, stable_since_get,
                            color_send_generation, workers, cancel_returns,
                            status_events >>
       ELSE /\ switch_call' = [ device_name |-> c, success |-> TRUE ]
            /\ controller_port' = FALSE
            /\ controller_out' = FALSE
            /\ current_controller' = c
            /\ connected_port_name' = "none"
            /\ RecalculateLayout(c, layout_type, NoCalculator, Tunings[tuning])
    /\ switches' = switches + 1
    /\ last_handler' = "switch_controller"
    /\ UNCHANGED << layout_type, tuning, edits, retunes, ctrl_out, oVars >>
    /\ CoordinatorFrame

\* PGIsomapApp.disconnect_controller: midi_handler.disconnect_controller()
\* closes and clears both controller ports, then current_controller = None.
DisconnectController ==
    /\ controller_port' = FALSE
    /\ controller_out' = FALSE
    /\ connected_port_name' = "none"
    /\ current_controller' = "none"
    /\ switches' = switches + 1
    /\ last_handler' = "disconnect_controller"
    /\ UNCHANGED << layout_type, calculator, tuning, edits, retunes,
                    switch_call, tVars, installs, stable_since_get,
                    color_send_generation, workers, ctrl_out, cancel_returns,
                    status_events, oVars >>
    /\ CoordinatorFrame

\* PGIsomapApp.connect_to_controller.  found = "none": the controller's port
\* is not found and the call returns False after disconnecting the previous
\* one; found = "in": only the port we listen on is found; found = "both".
ConnectOutcomes == { "none", "in", "both" }

\* The handler without what it leaves alone: _discovery_loop calls it too.
ConnectToControllerBody(c, found) ==
    /\ Controllers[c].controller_midi_output
    /\ IF found = "none"
       THEN /\ controller_port' = FALSE
            /\ controller_out' = IF controller_port THEN FALSE
                                 ELSE controller_out
            /\ connected_port_name' = IF controller_port THEN "none"
                                      ELSE connected_port_name
            /\ UNCHANGED << current_controller, calculator, tVars, installs,
                            stable_since_get, color_send_generation, workers,
                            ctrl_out, cancel_returns, status_events >>
       ELSE /\ controller_port' = TRUE
            /\ controller_out' = (found = "both")
            /\ connected_port_name' = c
            /\ current_controller' = c
            /\ ctrl_out' = IF Controllers[c].set_pad_notes_bulk /\ found = "both"
                           THEN ControllerSend(None, 1, 0)
                           ELSE ctrl_out
            /\ RecalculateLayout(c, layout_type, NoCalculator, Tunings[tuning])
    /\ switches' = switches + 1
    /\ last_handler' = "connect_to_controller"
    /\ switch_call' = switch_call
    /\ UNCHANGED << layout_type, tuning, edits, retunes, oVars >>

ConnectToController(c, found) ==
    /\ ConnectToControllerBody(c, found)
    /\ CoordinatorFrame

\* PGIsomapApp.update_layout_config
UpdateLayoutConfig(ltype) ==
    /\ layout_type' = ltype
    /\ RecalculateLayout(current_controller, ltype, calculator, Tunings[tuning])
    /\ switches' = switches + 1
    /\ last_handler' = "update_layout_config"
    /\ switch_call' = switch_call
    /\ UNCHANGED << current_controller, tuning, edits, retunes,
                    controller_port, controller_out, ctrl_out, oVars,
                    connected_port_name >>
    /\ CoordinatorFrame

\* PGIsomapApp.apply_transformation
ApplyTransformation(kind) ==
    /\ calculator # NoCalculator
    /\ RecalculateLayout(current_controller, layout_type,
                         CalculatorApplyTransformation(calculator, kind),
                         Tunings[tuning])
    /\ edits' = edits + 1
    /\ last_handler' = "apply_transformation"
    /\ switch_call' = switch_call
    /\ UNCHANGED << current_controller, layout_type, tuning, retunes, switches,
                    controller_port, controller_out, ctrl_out, oVars,
                    connected_port_name >>
    /\ CoordinatorFrame

(***************************************************************************)
(* PGIsomapApp._handle_scale_update on the OSC thread, statement by        *)
(* statement                                                               *)
(***************************************************************************)
\* The OSC server calls the handler; arg is the tuning the arguments name,
\* 0 when fewer than seven arguments came.
ScaleUpdateArrive(arg) ==
    /\ pc_scale = "idle"
    /\ pc_scale' = "arrived"
    /\ scale_arg' = arg
    /\ gen_at_arrival' = color_send_generation
    /\ inflight_at_arrival' = { w \in DOMAIN workers : InFlight(workers[w]) }
    /\ scale_worker' = 0
    /\ retunes' = retunes + 1
    /\ UNCHANGED << scale_result, current_controller, layout_type, calculator, tuning, edits,
                    switches, last_handler, switch_call, tVars, installs,
                    stable_since_get,
                    sVars,
                    connected_port_name, status_events >>
    /\ CoordinatorFrame

\* self.midi_handler.cancel_color_send()
ScaleUpdateCancel ==
    /\ pc_scale = "arrived"
    /\ pc_scale' = "cancelled"
    /\ color_send_generation' = CancelColorSend(color_send_generation)
    /\ cancel_returns' =
         Append(cancel_returns,
                CancelColorSendReturn(CancelColorSend(color_send_generation)))
    /\ UNCHANGED << scale_arg, gen_at_arrival, inflight_at_arrival,
                    scale_worker, scale_result, lVars, tVars, installs, stable_since_get,
                    controller_port, controller_out, workers, ctrl_out,
                    connected_port_name, status_events >>
    /\ CoordinatorFrame

\* if len(args) >= 7: self.tuning_handler.update_tuning(...)
ScaleUpdateTune ==
    /\ pc_scale = "cancelled"
    /\ IF scale_arg = 0
       THEN pc_scale' = "idle" /\ tuning' = tuning
       ELSE pc_scale' = "tuned" /\ tuning' = scale_arg
    /\ UNCHANGED << scale_arg, gen_at_arrival, inflight_at_arrival,
                    scale_worker, scale_result, current_controller, layout_type, calculator,
                    edits, retunes, switches, last_handler, switch_call, tVars,
                    installs,
                    stable_since_get, sVars, connected_port_name,
                    status_events >>
    /\ CoordinatorFrame

\* self._recalculate_layout()
ScaleUpdateRecalculate ==
    /\ pc_scale = "tuned"
    /\ pc_scale' = "idle"
    /\ RecalculateLayout(current_controller, layout_type, calculator,
                         Tunings[tuning])
    /\ scale_worker' = IF current_controller = "none" THEN 0
                       ELSE Len(workers) + 1
    /\ last_handler' = "_handle_scale_update"
    /\ switch_call' = switch_call
    /\ UNCHANGED << scale_result, scale_arg, gen_at_arrival, inflight_at_arrival,
                    current_controller, layout_type, tuning, edits, retunes,
                    switches, controller_port, controller_out, ctrl_out,
                    connected_port_name >>
    /\ CoordinatorFrame

\* self._recalculate_layout() on the OSC thread up to the call of
\* update_note_mapping: the early return without a controller, the
\* calculator, calculate_mapping and build_controller_note_mapping.
ScaleUpdateCalculate ==
    /\ pc_scale = "tuned"
    /\ IF current_controller = "none"
       THEN /\ pc_scale' = "idle"
            /\ UNCHANGED << calculator, scale_result >>
       ELSE LET r == Recalculation(current_controller, layout_type,
                                  calculator, Tunings[tuning])
            IN /\ pc_scale' = "calculated"
               /\ calculator' = r.calc
               /\ scale_result' = [ mapping |-> r.mapping,
                                    reverse |-> r.reverse ]
    /\ UNCHANGED << scale_arg, gen_at_arrival, inflight_at_arrival,
                    scale_worker, current_controller, layout_type, tuning,
                    edits, retunes, switches, last_handler, switch_call,
                    tVars, installs, stable_since_get, sVars,
                    connected_port_name, status_events >>
    /\ CoordinatorFrame

\* The rest of _recalculate_layout on the OSC thread: update_note_mapping
\* with the tables calculated before, the broadcast and the color send.
ScaleUpdateInstall ==
    /\ pc_scale = "calculated"
    /\ pc_scale' = "idle"
    /\ UpdateAndSend(scale_result)
    /\ scale_worker' = Len(workers) + 1
    /\ last_handler' = "_handle_scale_update"
    /\ UNCHANGED << scale_result, scale_arg, gen_at_arrival,
                    inflight_at_arrival, current_controller, layout_type,
                    calculator, tuning, edits, retunes, switches, switch_call,
                    controller_port, controller_out, ctrl_out,
                    connected_port_name >>
    /\ CoordinatorFrame

(***************************************************************************)
(* web_api switch_controller and PGIsomapApp.connect_to_controller,        *)
(* statement by statement                                                  *)
(***************************************************************************)
\* What the statements of a controller switch do not touch.
SwitchFrame ==
    UNCHANGED << hVars, qVars, pc_remap, message, logical_coord, mapped_note,
                 used_rev_inst, used_fwd_inst, out_at_get, messages_processed,
                 notes_remapped, virt_out, timestamp, virt_at, loop_errors,
                 callback_errors, pc_update,
                 update_arg, iVars, fVars, kVars, ports, cached_midi_ports, last_detected,
                 last_midi_connected, discovery_events, discovery_iterations,
                 port_events >>

\* switch_controller up to the call of _recalculate_layout: disconnect the
\* MIDI ports, replace the descriptor, drop the calculator.
SwitchControllerReplace(c) ==
    /\ pc_switch = "idle"
    /\ pc_switch' = "replaced"
    /\ controller_port' = FALSE
    /\ controller_out' = FALSE
    /\ connected_port_name' = "none"
    /\ current_controller' = c
    /\ calculator' = NoCalculator
    /\ switches' = switches + 1
    /\ last_handler' = "switch_controller"
    /\ switch_call' = [ device_name |-> c, success |-> TRUE ]
    /\ UNCHANGED << layout_type, tuning, edits, retunes, tVars, installs,
                    stable_since_get, color_send_generation, workers,
                    ctrl_out, cancel_returns, status_events, oVars >>
    /\ SwitchFrame

\* connect_to_controller up to the call of _send_controller_setup: connect
\* the MIDI ports (return when the port is not found), replace the
\* descriptor, drop the calculator.
ConnectToControllerReplace(c, found) ==
    /\ pc_switch = "idle"
    /\ Controllers[c].controller_midi_output
    /\ IF found = "none"
       THEN /\ controller_port' = FALSE
            /\ controller_out' = IF controller_port THEN FALSE
                                 ELSE controller_out
            /\ connected_port_name' = IF controller_port THEN "none"
                                      ELSE connected_port_name
            /\ UNCHANGED << current_controller, calculator, pc_switch >>
       ELSE /\ controller_port' = TRUE
            /\ controller_out' = (found = "both")
            /\ connected_port_name' = c
            /\ current_controller' = c
            /\ calculator' = NoCalculator
            /\ pc_switch' = "connected"
    /\ switches' = switches + 1
    /\ last_handler' = "connect_to_controller"
    /\ switch_call' = switch_call
    /\ UNCHANGED << layout_type, tuning, edits, retunes, tVars, installs,
                    stable_since_get, color_send_generation, workers,
                    ctrl_out, cancel_returns, status_events, oVars >>
    /\ SwitchFrame

\* The rest of both handlers: _send_controller_setup after a connect, then
\* _recalculate_layout.
SwitchRecalculate ==
    /\ pc_switch \in { "replaced", "connected" }
    /\ pc_switch' = "idle"
    /\ ctrl_out' = IF /\ pc_switch = "connected"
                      /\ Controllers[current_controller].set_pad_notes_bulk
                      /\ controller_out
                   THEN ControllerSend(None, 1, 0)
                   ELSE ctrl_out
    /\ RecalculateLayout(current_controller, layout_type, calculator,
                         Tunings[tuning])
    /\ UNCHANGED << current_controller, layout_type, tuning, edits, retunes,
                    switches, last_handler, switch_call, controller_port,
                    controller_out,
                    connected_port_name, oVars >>
    /\ SwitchFrame

\* The messages a connected controller sends for its first pad.
ControllerMessages(c) ==
    { << NOTE_ON, Controllers[c].first_note, 100 >>,
      << NOTE_OFF, Controllers[c].first_note, 0 >> }

(***************************************************************************)
(* MIDI ports, PGIsomapApp.refresh_midi_ports and _discovery_loop          *)
(***************************************************************************)
\* The controllers whose descriptor names a MIDI port.
PortControllers == { c \in ControllerNames : Controllers[c].controller_midi_output }

PortFrame ==
    UNCHANGED << hVars, qVars, tVars, rVars, uVars, lVars, sVars, oVars, iVars, fVars, kVars,
                 connected_port_name, status_events, last_detected,
                 last_midi_connected, pc_switch, discovery_events,
                 discovery_iterations >>

\* The port of controller c is plugged in or removed.  The rtmidi port
\* objects the handler holds stay as they are.
PortAppears(c) ==
    /\ c \notin ports
    /\ ports' = ports \cup { c }
    /\ port_events' = port_events + 1
    /\ UNCHANGED cached_midi_ports
    /\ PortFrame

PortDisappears(c) ==
    /\ c \in ports
    /\ ports' = ports \ { c }
    /\ port_events' = port_events + 1
    /\ UNCHANGED cached_midi_ports
    /\ PortFrame

\* refresh_midi_ports, called periodically on the event loop.
RefreshMidiPorts ==
    /\ cached_midi_ports' = ports
    /\ UNCHANGED << ports, port_events >>
    /\ PortFrame

\* What midi_handler.connect_to_controller finds for controller c.
FoundPorts(c) == IF c \in ports THEN { "in", "both" } ELSE { "none" }

\* One iteration of _discovery_loop: match the cached ports, disconnect
\* when the connected port is not among them, and, if the detected set or
\* the connection state differs from the last ones seen, auto-connect the
\* selected controller that just appeared, remember both and broadcast.
DiscoveryIteration(found) ==
    LET available_ports == cached_midi_ports
        current_detected == { c \in PortControllers : c \in available_ports }
        lost == /\ connected_port_name # "none"
                /\ connected_port_name \notin available_ports
        current_midi_connected == IF lost THEN FALSE ELSE controller_port
        changed == \/ current_detected # last_detected
                   \/ current_midi_connected # last_midi_connected
        newly_connected == current_detected \ last_detected
        auto == /\ changed
                /\ current_controller # "none"
                /\ current_controller \in newly_connected
                /\ ~current_midi_connected
    IN \* The count stops at MaxDiscoveryIterations; the loop does not.
       /\ discovery_iterations' =
            IF discovery_iterations < MaxDiscoveryIterations
            THEN discovery_iterations + 1 ELSE discovery_iterations
       /\ IF auto
          THEN /\ found \in FoundPorts(current_controller)
               /\ ConnectToControllerBody(current_controller, found)
               /\ last_midi_connected' = controller_port'
          ELSE /\ found = "none"
               /\ controller_port' = current_midi_connected
               /\ controller_out' = IF lost THEN FALSE ELSE controller_out
               /\ connected_port_name' = IF lost THEN "none"
                                         ELSE connected_port_name
               /\ last_midi_connected' =
                    IF changed THEN current_midi_connected
                    ELSE last_midi_connected
               /\ UNCHANGED << lVars, tVars, installs, stable_since_get,
                               color_send_generation, workers, ctrl_out,
                               cancel_returns, status_events, oVars >>
       /\ last_detected' = IF changed THEN current_detected ELSE last_detected
       /\ discovery_events' = IF changed THEN discovery_events + 1
                              ELSE discovery_events
       \* What one iteration of _discovery_loop leaves alone.
       /\ (UNCHANGED << hVars, qVars, pc_remap, message, logical_coord, mapped_note,
                        used_rev_inst, used_fwd_inst, out_at_get, messages_processed,
                        notes_remapped, virt_out, timestamp, virt_at, loop_errors,
                        callback_errors, pc_update,
                        update_arg, iVars, fVars, kVars, ports, cached_midi_ports, pc_switch,
                        port_events >>)

(***************************************************************************)
(* An IsomorphicLayout driven through its own methods                      *)
(***************************************************************************)
IdentityTransform == << 1, 0, 0, 1, 0, 0 >>

IsoFrame ==
    UNCHANGED << hVars, qVars, tVars, rVars, uVars, lVars, sVars, oVars,
                 fVars, kVars, dVars >>

\* The history restarts at the transform M.
IsoHistoryFrom(M) ==
    /\ iso_origin' = M
    /\ iso_composed' = IdentityTransform
    /\ iso_shift' = << 0, 0 >>
    /\ iso_last' = ""
    /\ iso_before' = M
    /\ iso_run' = 0
    /\ iso_run_start' = M

\* IsomorphicLayout.__init__
IsoConstruct(root, angle) ==
    \* IsomorphicLayout(config, default_root, row_to_col_angle)
    LET IsomorphicLayoutInit ==
            \* quad_or_hex of a controller whose RowToColAngle is angle.
            LET QuadOrHex(a) ==
                    IF 75 < a /\ a < 105 THEN "rect" ELSE "hex"
            IN
                [ NewIsomorphicLayout(root) EXCEPT !.quad_or_hex = QuadOrHex(angle) ]
    IN
        /\ iso = NoCalculator
        /\ iso' = IsomorphicLayoutInit
        /\ IsoHistoryFrom(iso'.mapping_transform)
        /\ UNCHANGED << iso_edits, iso_fits >>
        /\ IsoFrame

\* IsomorphicLayout.apply_transformation(kind); an unknown type is logged
\* and changes nothing.
IsoEdit(kind) ==
    /\ iso # NoCalculator
    /\ iso' = IsoApplyTransformation(iso, kind)
    /\ IF kind \notin DOMAIN IsoDeltas(iso)
       THEN UNCHANGED << iso_edits, iso_composed, iso_shift, iso_last,
                         iso_before, iso_run, iso_run_start >>
       ELSE LET delta == IsoDeltas(iso)[kind] IN
            /\ iso_edits' = iso_edits + 1
            /\ iso_composed' = ApplyAffine(delta, iso_composed)
            /\ iso_shift' = << iso_shift[1] + delta[5], iso_shift[2] + delta[6] >>
            /\ iso_last' = kind
            /\ iso_before' = iso.mapping_transform
            /\ iso_run' = IF kind = iso_last THEN iso_run + 1 ELSE 1
            /\ iso_run_start' = IF kind = iso_last THEN iso_run_start
                                ELSE iso.mapping_transform
    /\ UNCHANGED << iso_origin, iso_fits >>
    /\ IsoFrame

\* IsomorphicLayout.calculate_mapping for the pads of the 3x3 grid and the
\* MOS and table of tuning state tun.
IsoCalculate(tun) ==
    /\ iso # NoCalculator
    /\ iso' = IsoCalculateMapping(iso, Controllers.Grid3x3.pads, tun).calc
    /\ iso_fits' = iso_fits + 1
    /\ IsoHistoryFrom(iso'.mapping_transform)
    /\ UNCHANGED iso_edits
    /\ IsoFrame

(***************************************************************************)
(* MIDITemplateBuilder: build_midi_message and _evaluate_lambda            *)
(*                                                                         *)
(* A template is the sequence of its whitespace-separated tokens; an       *)
(* expression is its syntax tree.  A value is [ok, v]: the integer v, or   *)
(* ok = FALSE for text whose evaluation raises.                            *)
(***************************************************************************)
Val(n) == [ ok |-> TRUE, v |-> n ]
Raises == [ ok |-> FALSE, v |-> 0 ]

Const(n) == [ op |-> "const", v |-> n ]
Var(name) == [ op |-> "var", n |-> name ]
Call(f, args) == [ op |-> "call", f |-> f, args |-> args ]
Malformed == [ op |-> "bad" ]

NumToken(n) == [ t |-> "num", v |-> n ]
BraceToken(e) == [ t |-> "brace", e |-> e ]
NameToken(name) == [ t |-> "name", n |-> name ]
ExprToken(e) == [ t |-> "expr", e |-> e ]

\* self.config, the keys of the descriptor that templates can name: a hex
\* string, an integer, the macros Header ("240 MANUFACTURER_CODE"),
\* Loop ("240 Loop"), Ping ("Pong") and Pong ("Ping"), the functions
\* keyIndex ("x + 14*y") and selfRef ("selfRef(x)"), and the NRPN template
\* ("176 99 {x} 98 {y}").  A string has two readings: its tokens when it
\* is expanded as a template, its expression when it is called.
TemplateConfig ==
    [ MANUFACTURER_CODE |-> [ type |-> "hex", value |-> 32 ],
      NumRows |-> [ type |-> "int", value |-> 8 ],
      Header |-> [ type |-> "str",
                   template |-> << NumToken(240),
                                   NameToken("MANUFACTURER_CODE") >>,
                   expr |-> Malformed ],
      Loop |-> [ type |-> "str",
                 template |-> << NumToken(240), NameToken("Loop") >>,
                 expr |-> Malformed ],
      Ping |-> [ type |-> "str", template |-> << NameToken("Pong") >>,
                 expr |-> Malformed ],
      Pong |-> [ type |-> "str", template |-> << NameToken("Ping") >>,
                 expr |-> Malformed ],
      keyIndex |-> [ type |-> "str",
                     template |-> << NameToken("x"), ExprToken(Malformed),
                                     NumToken(14), ExprToken(Malformed) >>,
                     expr |-> [ op |-> "add", l |-> Var("x"),
                               r |-> [ op |-> "mul", l |-> Const(14),
                                       r |-> Var("y") ] ] ],
      selfRef |-> [ type |-> "str",
                    template |-> << ExprToken(Call("selfRef", << Var("x") >>)) >>,
                    expr |-> Call("selfRef", << Var("x") >>) ],
      NRPN |-> [ type |-> "str",
                 template |-> << NumToken(176), NumToken(99),
                                 BraceToken(Var("x")), NumToken(98),
                                 BraceToken(Var("y")) >>,
                 expr |-> Malformed ] ]

\* eval(expr, {"__builtins__": {}}, names): a name that is not bound, a name
\* bound to text that does not evaluate, and malformed text raise.  The
\* expressions of the model call functions at their head only, where
\* _evaluate_lambda expands them before eval is reached.
RECURSIVE PyEval(_, _)
PyEval(e, names) ==
    CASE e.op = "const" -> Val(e.v)
      [] e.op = "var" -> IF e.n \in DOMAIN names THEN names[e.n] ELSE Raises
      [] e.op \in { "add", "sub", "mul" } ->
           LET l == PyEval(e.l, names)
               r == PyEval(e.r, names)
           IN IF ~(l.ok /\ r.ok) THEN Raises
              ELSE IF e.op = "add" THEN Val(l.v + r.v)
              ELSE IF e.op = "sub" THEN Val(l.v - r.v)
              ELSE Val(l.v * r.v)
      [] OTHER -> Raises

\* eval_kwargs: the positional arguments bound to x, y, z, w; an argument
\* that does not evaluate is bound as text.
ParamNames == << "x", "y", "z", "w" >>

\* _evaluate_lambda at stack depth depth: a call of a function the
\* descriptor defines as a string evaluates the definition recursively and
\* returns its result; anything else is evaluated; every exception, the
\* RecursionError of the interpreter included, is logged and 0 is returned.
RECURSIVE EvaluateLambda(_, _, _)
EvaluateLambda(e, kwargs, depth) ==
    LET EvalKwargs(args, kw) ==
            LET bound == { ParamNames[i] : i \in 1..Min(Len(args), Len(ParamNames)) }
                pos(n) == CHOOSE i \in 1..Len(ParamNames) : ParamNames[i] = n
            IN [ n \in DOMAIN kw \cup bound |->
                   IF n \in bound THEN PyEval(args[pos(n)], kw) ELSE kw[n] ]
    IN
        \* allowed_names after the textual replacement of the keyword arguments:
        \* every keyword argument, and 0 for the listed names that are not given.
        LET AllowedNames(kw) ==
                [ n \in DOMAIN kw
                       \cup { "x", "y", "z", "w", "noteNumber", "midiChannel", "red",
                              "green", "blue" } |->
                    IF n \in DOMAIN kw THEN kw[n] ELSE Val(0) ]
        IN
            IF /\ e.op = "call"
               /\ e.f \in DOMAIN TemplateConfig
               /\ TemplateConfig[e.f].type = "str"
            THEN IF depth >= MaxRecursionDepth THEN 0
                 ELSE EvaluateLambda(TemplateConfig[e.f].expr,
                                     EvalKwargs(e.args, kwargs), depth + 1)
            ELSE LET r == PyEval(e, AllowedNames(kwargs))
                 IN IF r.ok THEN r.v ELSE 0

\* build_midi_message at stack depth depth: [raised, bytes], raised when the
\* RecursionError of the interpreter leaves the call.
RECURSIVE BuildMidiMessage(_, _, _)
RECURSIVE TokenBytes(_, _, _)
TokenBytes(tok, kwargs, depth) ==
    \* replace_template_var: the text a {expression} is replaced by, as the
    \* number it spells; "0" when the evaluation raises.
    LET ReplaceTemplateVar(e0, kw) ==
            LET r == PyEval(e0, kw) IN IF r.ok THEN r.v ELSE 0
    IN
        LET bytes(b) == [ raised |-> FALSE, bytes |-> b ]
        IN CASE tok.t = "num" -> bytes(<< tok.v >>)
             [] tok.t = "brace" ->
                  \* the digits of a number are a number token; "-n" is an
                  \* expression
                  LET v == ReplaceTemplateVar(tok.e, kwargs)
                  IN IF v >= 0 THEN bytes(<< v >>)
                     ELSE bytes(<< EvaluateLambda(Const(v), kwargs, depth) >>)
             [] tok.t = "name" ->
                  IF tok.n \in DOMAIN TemplateConfig
                  THEN IF TemplateConfig[tok.n].type = "str"
                       THEN BuildMidiMessage(TemplateConfig[tok.n].template,
                                             kwargs, depth + 1)
                       ELSE bytes(<< TemplateConfig[tok.n].value >>)
                  ELSE IF tok.n \in DOMAIN kwargs
                  THEN bytes(<< kwargs[tok.n].v >>)
                  ELSE bytes(<< EvaluateLambda(Var(tok.n), kwargs, depth) >>)
             [] tok.t = "nrpn" ->
                  \* an exception of the expansion is logged here and nothing
                  \* is added
                  LET sub == BuildMidiMessage(TemplateConfig["NRPN"].template,
                                              [ x |-> Val(tok.x), y |-> Val(tok.y) ],
                                              depth + 1)
                  IN IF sub.raised THEN bytes(<< >>) ELSE sub
             [] OTHER -> bytes(<< EvaluateLambda(tok.e, kwargs, depth) >>)

RECURSIVE BuildFrom(_, _, _, _)
BuildFrom(template, i, kwargs, depth) ==
    IF i > Len(template) THEN [ raised |-> FALSE, bytes |-> << >> ]
    ELSE LET first == TokenBytes(template[i], kwargs, depth)
             rest == BuildFrom(template, i + 1, kwargs, depth)
         IN IF first.raised \/ rest.raised
            THEN [ raised |-> TRUE, bytes |-> << >> ]
            ELSE [ raised |-> FALSE, bytes |-> first.bytes \o rest.bytes ]

BuildMidiMessage(template, kwargs, depth) ==
    IF depth > MaxRecursionDepth
    THEN [ raised |-> TRUE, bytes |-> << >> ]
    ELSE BuildFrom(template, 1, kwargs, depth)

\* A caller (set_pad_color and the like) hands a template and its keyword
\* arguments to build_midi_message and takes what it returns.
BuildMessage(template, kwargs) ==
    /\ tpl_pc = "idle"
    /\ tpl_pc' = "returned"
    /\ tpl_template' = template
    /\ tpl_kwargs' = kwargs
    /\ tpl_result' = BuildMidiMessage(template, kwargs, 0)
    /\ UNCHANGED << parse_data, parse_messages, kVars >>
    /\ UNCHANGED << hVars, qVars, tVars, rVars, uVars, lVars, sVars, oVars,
                    iVars, dVars >>

(***************************************************************************)
(* MIDIHandler._parse_midi_messages                                        *)
(***************************************************************************)
\* data[i:i+n] of Python, for the 1-based position i: cut at the end.
Slice(data, i, n) == SubSeq(data, i, Min(i + n - 1, Len(data)))

\* The position after a SysEx that starts at i: one past the first 0xF7
\* behind i, or past the end of the data when there is none.
RECURSIVE SysExEnd(_, _)
SysExEnd(data, end) ==
    IF end > Len(data) THEN end
    ELSE IF data[end] = 247 THEN end + 1
    ELSE SysExEnd(data, end + 1)

ChannelMessageLengthThree(status) == 3

\* Program Change (0xC0) and Channel Pressure (0xD0) have one data byte,
\* the other channel messages two.
ChannelMessageLength(status) ==
    IF (status \div 16) * 16 \in { 192, 208 } THEN 2 ELSE 3

SystemCommonLengthOne(status) == 1

\* Time Code (0xF1) and Song Select (0xF3) have one data byte, Song
\* Position (0xF2) two, 0xF4..0xF6 none.
SystemCommonLength(status) ==
    IF status \in { 241, 243 } THEN 2
    ELSE IF status = 242 THEN 3
    ELSE 1

\* The while loop from position i on.
RECURSIVE ParseFrom(_, _)
ParseFrom(data, i) ==
    IF i > Len(data) THEN << >>
    ELSE LET status == data[i] IN
         IF status = 240
         THEN << SubSeq(data, i, SysExEnd(data, i + 1) - 1) >>
                 \o ParseFrom(data, SysExEnd(data, i + 1))
         ELSE IF 128 <= status /\ status <= 239
         THEN << Slice(data, i, ChannelMessageLength(status)) >>
                 \o ParseFrom(data, i + ChannelMessageLength(status))
         ELSE IF 241 <= status /\ status <= 246
         THEN << Slice(data, i, SystemCommonLength(status)) >>
                 \o ParseFrom(data, i + SystemCommonLength(status))
         ELSE IF status >= 248
         THEN << << status >> >> \o ParseFrom(data, i + 1)
         ELSE ParseFrom(data, i + 1)

\* send_raw_bytes up to the loop over the messages.
SendRawBytesParse(data) ==
    \* _parse_midi_messages: the loop from the first byte.
    LET ParseMidiMessages(bytes) ==
            ParseFrom(bytes, 1)
    IN
        /\ parse_data' = data
        /\ parse_messages' = IF data = << >> THEN << >> ELSE ParseMidiMessages(data)
        /\ UNCHANGED << tpl_template, tpl_kwargs, tpl_result, tpl_pc, kVars >>
        /\ UNCHANGED << hVars, qVars, tVars, rVars, uVars, lVars, sVars, oVars,
                        iVars, dVars >>

(***************************************************************************)
(* The locks: MIDIHandler._color_send_lock and PGIsomapApp._ports_lock     *)
(***************************************************************************)
\* send_raw_bytes, "with self._color_send_lock:": the color worker w takes
\* the lock before it tests the generation.
WorkerLock(w) ==
    /\ w \in DOMAIN workers
    /\ workers[w].pc = "check"
    /\ color_send_lock = << >>
    /\ color_send_lock' = << "worker", w >>
    /\ workers' = [ workers EXCEPT ![w].pc = "locked" ]
    /\ UNCHANGED << controller_port, controller_out, color_send_generation,
                    ctrl_out, cancel_returns, ports_lock, ports_copies,
                    threads, thread, pc_stop >>
    /\ UNCHANGED << hVars, qVars, tVars, rVars, uVars, lVars, oVars,
                    iVars, fVars, dVars >>

WorkerKeepsLock(w) ==
    /\ w \in DOMAIN workers
    /\ workers[w].pc = "locked"
    /\ workers' = IF GenerationCheckPasses(w)
                  THEN [ workers EXCEPT ![w].pc = "send" ]
                  ELSE [ workers EXCEPT ![w].pc = "cancelled" ]
    /\ UNCHANGED << controller_port, controller_out, color_send_generation,
                    ctrl_out, cancel_returns, kVars >>
    /\ UNCHANGED << hVars, qVars, tVars, rVars, uVars, lVars, oVars,
                    iVars, fVars, dVars >>

\* The test under the lock; the with statement ends, by the return of a
\* cancelled send or by falling through to send_message, and the lock is
\* released.
WorkerUnlock(w) ==
    /\ w \in DOMAIN workers
    /\ workers[w].pc = "locked"
    /\ color_send_lock' = << >>
    /\ workers' = IF GenerationCheckPasses(w)
                  THEN [ workers EXCEPT ![w].pc = "send" ]
                  ELSE [ workers EXCEPT ![w].pc = "cancelled" ]
    /\ UNCHANGED << controller_port, controller_out, color_send_generation,
                    ctrl_out, cancel_returns, ports_lock, ports_copies,
                    threads, thread, pc_stop >>
    /\ UNCHANGED << hVars, qVars, tVars, rVars, uVars, lVars, oVars,
                    iVars, fVars, dVars >>

\* "with self._ports_lock:" entered by owner: "main" in refresh_midi_ports,
\* "discovery" in get_cached_midi_ports at the top of a loop iteration.
PortsLockAcquire(owner) ==
    /\ ports_lock = << >>
    /\ owner = "discovery" => ports_copies = discovery_iterations
    /\ ports_lock' = << owner >>
    /\ UNCHANGED << hVars, qVars, tVars, rVars, uVars, lVars, sVars, oVars,
                    iVars, fVars, dVars, color_send_lock, ports_copies,
                    threads, thread, pc_stop >>

\* The body of the with statement and its end: refresh_midi_ports stores the
\* port list, get_cached_midi_ports returns a copy of it.
PortsLockRelease(owner) ==
    /\ ports_lock = << owner >>
    /\ ports_lock' = << >>
    /\ cached_midi_ports' = IF owner = "main" THEN ports ELSE cached_midi_ports
    /\ ports_copies' = IF owner = "discovery" THEN ports_copies + 1
                       ELSE ports_copies
    /\ UNCHANGED << ports, port_events, color_send_lock, threads, thread,
                    pc_stop >>
    /\ UNCHANGED << hVars, qVars, tVars, rVars, uVars, lVars, sVars, oVars,
                    iVars, fVars, connected_port_name, status_events,
                    last_detected, last_midi_connected, pc_switch,
                    discovery_events, discovery_iterations >>

(***************************************************************************)
(* MIDIHandler.start, MIDIHandler.stop and the threads they create         *)
(***************************************************************************)
\* What start, stop and the loop test of a thread leave alone.
ThreadFrame ==
    UNCHANGED << midi_out, qVars, tVars, rVars, uVars, lVars, sVars, oVars,
                 iVars, fVars, dVars, color_send_lock, ports_lock,
                 ports_copies >>

\* start(): nothing when _running; else _running = True and a new thread
\* that runs _processing_loop.
MidiStart ==
    /\ pc_stop = "idle"
    /\ IF running
       THEN UNCHANGED << running, threads, thread >>
       ELSE /\ running' = TRUE
            /\ threads' = Append(threads, "test")
            /\ thread' = Len(threads) + 1
    /\ pc_stop' = pc_stop
    /\ ThreadFrame

\* stop() up to the join: _running = False; if self._thread: join(timeout=2.0)
MidiStop ==
    /\ pc_stop = "idle"
    /\ running' = FALSE
    /\ pc_stop' = IF thread # 0 THEN "join" ELSE "idle"
    /\ UNCHANGED << threads, thread >>
    /\ ThreadFrame

\* join returns, because the thread has ended or because two seconds have
\* passed; self._thread = None.
MidiStopJoin ==
    /\ pc_stop = "join"
    /\ pc_stop' = "idle"
    /\ thread' = 0
    /\ UNCHANGED << running, threads >>
    /\ ThreadFrame

\* One step of _processing_loop on thread t: the test of
\* "while self._running:", which ends the thread when the flag is down, or
\* the body, self._message_queue.get(timeout=0.1) and what follows it, back
\* to the test.
ProcessingLoop(t) ==
    /\ threads[t] # "exited"
    /\ threads' = [ threads EXCEPT
                      ![t] = IF @ = "get" THEN "test"
                             ELSE IF running THEN "get" ELSE "exited" ]
    /\ UNCHANGED << running, thread, pc_stop >>
    /\ ThreadFrame

(***************************************************************************)
(* Initial state: MIDIHandler.__init__                                     *)
(***************************************************************************)
Init ==
    \* MIDIHandler.__init__ and the history of the MIDI core.
    /\ midi_out = "none"
    /\ running = FALSE
    /\ message_queue = << >>
    /\ note_mapping = EmptyMap
    /\ reverse_mapping = EmptyMap
    /\ messages_processed = 0
    /\ notes_remapped = 0
    /\ pc_remap = "get"
    /\ message = << >>
    /\ logical_coord = << >>
    /\ mapped_note = None
    /\ timestamp = 0
    /\ loop_errors = 0
    /\ callback_errors = 0
    /\ virt_at = << >>
    /\ pc_update = "idle"
    /\ update_arg = 0
    /\ clock = 0
    /\ queue_drops = 0
    /\ virt_out = << >>
    /\ installs = 0
    /\ note_mapping_inst = 0
    /\ reverse_mapping_inst = 0
    /\ used_rev_inst = 0
    /\ used_fwd_inst = 0
    /\ stable_since_get = TRUE
    /\ out_at_get = 0
    /\ drained = 0
    \* PGIsomapApp.__init__: no controller, the default layout, no calculator.
    /\ current_controller = "none"
    /\ layout_type = "isomorphic"
    /\ calculator = NoCalculator
    /\ tuning = 1
    /\ edits = 0
    /\ retunes = 0
    /\ switches = 0
    /\ last_handler = ""
    /\ switch_call = [ device_name |-> "", success |-> FALSE ]
    \* No controller port is open and no color worker exists.
    /\ controller_port = FALSE
    /\ controller_out = FALSE
    /\ color_send_generation = 0
    /\ workers = << >>
    /\ ctrl_out = << >>
    /\ cancel_returns = << >>
    \* No tuning update is in flight.
    /\ pc_scale = "idle"
    /\ scale_arg = 0
    /\ gen_at_arrival = 0
    /\ inflight_at_arrival = {}
    /\ scale_worker = 0
    /\ scale_result = [ mapping |-> EmptyMap, reverse |-> EmptyMap ]
    \* No IsomorphicLayout exists yet.
    /\ iso = NoCalculator
    /\ iso_edits = 0
    /\ iso_fits = 0
    /\ iso_origin = << >>
    /\ iso_composed = << >>
    /\ iso_shift = << >>
    /\ iso_last = ""
    /\ iso_before = << >>
    /\ iso_run = 0
    /\ iso_run_start = << >>
    \* PGIsomapApp.__init__ (the port cache is empty) and the locals of
    \* _discovery_loop before its first iteration.
    /\ ports = {}
    /\ cached_midi_ports = {}
    /\ connected_port_name = "none"
    /\ last_detected = {}
    /\ last_midi_connected = FALSE
    /\ status_events = 0
    /\ pc_switch = "idle"
    /\ discovery_events = 0
    /\ discovery_iterations = 0
    /\ port_events = 0
    \* send_raw_bytes was not called yet.
    /\ parse_data = << >>
    /\ parse_messages = << >>
    \* build_midi_message was not called yet.
    /\ tpl_template = << >>
    /\ tpl_kwargs = [ x |-> Val(0), y |-> Val(0) ]
    /\ tpl_result = [ raised |-> FALSE, bytes |-> << >> ]
    /\ tpl_pc = "idle"
    \* Both locks are free.
    /\ color_send_lock = << >>
    /\ ports_lock = << >>
    /\ ports_copies = 0
    /\ threads = << >>
    /\ thread = 0
    /\ pc_stop = "idle"

(***************************************************************************)
(* SpecRemap: callback, remap thread and update_note_mapping               *)
(***************************************************************************)
\* MIDIHandler.start: the port is found or created (ok) or start returns
\* False before the remap thread is created.
StartApp ==
    LET Start(ok) ==
            /\ midi_out = "none"
            /\ ~running
            /\ midi_out' = IF ok THEN "open" ELSE "unopened"
            /\ running' = ok
            /\ UNCHANGED << qVars, tVars, rVars, uVars, lVars, sVars, oVars,
                            iVars, fVars, kVars, dVars >>
    IN \E ok \in BOOLEAN : Start(ok)

NextRemap ==
    \/ StartApp
    \/ (\E m \in Messages : running /\ clock < MaxArrivals /\ MidiCallback(m))
    \/ (\E k \in 1..Len(Installations) :
            installs < MaxInstalls /\ UpdateNoteMappingBegin(k))
    \/ UpdateNoteMappingEnd
    \/ RemapGet
    \/ RemapReverseTest
    \/ RemapReverseGet
    \/ RemapForwardTest
    \/ RemapForwardGet
    \/ RemapEmit

SpecRemap == Init /\ [][NextRemap]_vars

(***************************************************************************)
(* SpecTrigger: SpecRemap and the /api/trigger_note requests of the UI     *)
(***************************************************************************)
NextTrigger ==
    \/ NextRemap
    \* /api/trigger_note for a mapped pad, an unmapped pad and a pad that
    \* is not on the controller, while fewer than MaxTriggers were sent.
    \/ (\E coord \in { <<0, 0>>, <<1, 1>>, <<5, 5>> }, note_on \in BOOLEAN :
            /\ Cardinality({ i \in DOMAIN virt_out : virt_out[i].by = "ui" })
                  < MaxTriggers
            /\ TriggerNote(coord, 100, note_on))

SpecTrigger == Init /\ [][NextTrigger]_vars

(***************************************************************************)
(* SpecIso: an IsomorphicLayout of a rectangular or a hexagonal controller *)
(***************************************************************************)
NextIso ==
    \/ (\E root \in { DefaultRoot("Grid3x3") }, angle \in { 90, 60 } :
            IsoConstruct(root, angle))
    \/ (\E kind \in DOMAIN RectDeltas \cup DOMAIN HexDeltas :
            iso_edits + iso_fits < MaxIsoCalls /\ IsoEdit(kind))
    \/ (\E t \in 1..Len(Tunings) :
            iso_edits + iso_fits < MaxIsoCalls /\ IsoCalculate(Tunings[t]))

SpecIso == Init /\ [][NextIso]_vars

(***************************************************************************)
(* SpecQueue: the callback saturating the queue                            *)
(***************************************************************************)
NextQueue ==
    \/ StartApp
    \/ (running /\ clock < MaxBurst /\ MidiCallback(BurstMessage))
    \/ (drained < MaxDrain /\ RemapGet)

SpecQueue == Init /\ [][NextQueue]_vars

(***************************************************************************)
(* SpecLayout: the coordinator driving the three layout calculators        *)
(***************************************************************************)
\* One more handler may be invoked.
MoreHandlerCalls == edits + switches + retunes < MaxHandlerCalls

NextLayout ==
    \* The handlers run one after the other here; SpecSend interleaves them.
    \* The names asked for: the configured ones and one that is not
    \* configured.
    \/ (\E c \in ControllerNames \cup { "Unknown" } :
            MoreHandlerCalls /\ pc_scale = "idle" /\ SwitchController(c))
    \/ (\E ltype \in LayoutTypes :
            MoreHandlerCalls /\ pc_scale = "idle" /\ UpdateLayoutConfig(ltype))
    \* The transformations exercised: one of each family.
    \/ (\E kind \in { "shift_right", "shift_down", "skew_left", "rotate_left",
                      "reflect_vertical", "increase_strip_width",
                      "scale_row_up" } :
            MoreHandlerCalls /\ pc_scale = "idle" /\ ApplyTransformation(kind))
    \/ (\E arg \in 0..Len(Tunings) : MoreHandlerCalls /\ ScaleUpdateArrive(arg))
    \/ ScaleUpdateCancel
    \/ ScaleUpdateTune
    \/ ScaleUpdateRecalculate

SpecLayout == Init /\ [][NextLayout]_vars

(***************************************************************************)
(* SpecSend: color sends to a connected controller against tuning updates  *)
(***************************************************************************)
NextSend ==
    \/ (\E c \in ControllerNames, found \in ConnectOutcomes :
            MoreHandlerCalls /\ ConnectToController(c, found))
    \* Tuning updates delivered while colors are sent: too few arguments, or
    \* the 5L2s tuning.
    \/ (\E arg \in { 0, 2 } : MoreHandlerCalls /\ ScaleUpdateArrive(arg))
    \/ ScaleUpdateCancel
    \/ ScaleUpdateTune
    \/ ScaleUpdateRecalculate
    \/ (\E w \in DOMAIN workers : WorkerStart(w))
    \/ (\E w \in DOMAIN workers : WorkerCheck(w))
    \/ (\E w \in DOMAIN workers : WorkerSend(w))

SpecSend == Init /\ [][NextSend]_vars

(***************************************************************************)
(* SpecSwitch: controller switches against the remap thread                *)
(***************************************************************************)
NextSwitch ==
    \/ StartApp
    \/ (/\ controller_port
        /\ running
        /\ clock < MaxArrivals
        /\ \E m \in ControllerMessages(connected_port_name) : MidiCallback(m))
    \/ (\E c \in ControllerNames : MoreHandlerCalls /\ SwitchControllerReplace(c))
    \/ (\E c \in ControllerNames, found \in ConnectOutcomes :
            MoreHandlerCalls /\ ConnectToControllerReplace(c, found))
    \/ SwitchRecalculate
    \/ RemapGet
    \/ RemapReverseTest
    \/ RemapReverseGet
    \/ RemapForwardTest
    \/ RemapForwardGet
    \/ RemapEmit

SpecSwitch == Init /\ [][NextSwitch]_vars

(***************************************************************************)
(* SpecDiscovery: ports that come and go, the port cache, the discovery    *)
(* thread and the handlers that select and connect a controller            *)
(***************************************************************************)
NextDiscovery ==
    \/ (\E c \in PortControllers :
            /\ port_events < MaxPortChanges
            /\ (PortAppears(c) \/ PortDisappears(c)))
    \/ RefreshMidiPorts
    \/ (\E found \in ConnectOutcomes :
            /\ discovery_iterations < MaxDiscoveryIterations
            /\ DiscoveryIteration(found))
    \/ (\E c \in ControllerNames : MoreHandlerCalls /\ SwitchController(c))
    \/ (\E c \in PortControllers, found \in ConnectOutcomes :
            /\ MoreHandlerCalls
            /\ found \in FoundPorts(c)
            /\ ConnectToController(c, found))

SpecDiscovery == Init /\ [][NextDiscovery]_vars

(***************************************************************************)
(* SpecRecalc: a tuning update on the OSC thread against the handlers of   *)
(* the web API                                                             *)
(***************************************************************************)
NextRecalc ==
    \* Tuning updates with seven arguments: the 5L2s and the 2L5s tuning.
    \/ (\E arg \in { 2, 3 } : MoreHandlerCalls /\ ScaleUpdateArrive(arg))
    \/ ScaleUpdateCancel
    \/ ScaleUpdateTune
    \/ ScaleUpdateCalculate
    \/ ScaleUpdateInstall
    \* The handlers of the web API run whole between two statements of the
    \* OSC thread.
    \/ (\E c \in ControllerNames : MoreHandlerCalls /\ SwitchController(c))
    \/ (\E ltype \in LayoutTypes :
            MoreHandlerCalls /\ UpdateLayoutConfig(ltype))
    \/ (\E kind \in { "shift_left", "shift_up" } :
            MoreHandlerCalls /\ ApplyTransformation(kind))

SpecRecalc == Init /\ [][NextRecalc]_vars

(***************************************************************************)
(* SpecThreads: start() and stop() called one after the other, and the     *)
(* threads they leave behind                                               *)
(***************************************************************************)
NextThreads ==
    \/ (Len(threads) < MaxThreads /\ MidiStart)
    \/ MidiStop
    \/ MidiStopJoin
    \/ (\E t \in DOMAIN threads : ProcessingLoop(t))

SpecThreads == Init /\ [][NextThreads]_vars

(***************************************************************************)
(* SpecDisconnect: controllers selected and disconnected, and the notes    *)
(* the UI triggers                                                         *)
(***************************************************************************)
NextDisconnect ==
    \/ StartApp
    \/ (\E c \in ControllerNames : MoreHandlerCalls /\ SwitchController(c))
    \/ (MoreHandlerCalls /\ DisconnectController)
    \/ (\E coord \in { <<0, 0>>, <<1, 1>>, <<5, 5>> }, note_on \in BOOLEAN :
            /\ Len(virt_out) < MaxTriggers
            /\ TriggerNote(coord, 100, note_on))

SpecDisconnect == Init /\ [][NextDisconnect]_vars

(***************************************************************************)
(* SpecAutoConnect: the discovery thread running for ever                  *)
(***************************************************************************)
NextAutoConnect ==
    \/ (\E c \in PortControllers :
            /\ port_events < MaxPortChanges
            /\ (PortAppears(c) \/ PortDisappears(c)))
    \/ RefreshMidiPorts
    \/ (\E found \in ConnectOutcomes : DiscoveryIteration(found))
    \/ (\E c \in ControllerNames : MoreHandlerCalls /\ SwitchController(c))

\* while self._discovery_running: ... time.sleep(...): the next iteration
\* always comes.  An iteration that changes anything changes the locals of
\* the loop or the controller connection.
SpecAutoConnect ==
    /\ Init
    /\ [][NextAutoConnect]_vars
    /\ WF_<< sVars, dVars >>(\E found \in ConnectOutcomes :
                                DiscoveryIteration(found))

(***************************************************************************)
(* SpecTemplate: templates handed to build_midi_message                    *)
(***************************************************************************)
\* Templates of up to n tokens.  The tokens: literals, braced expressions
\* in and out of the byte range, names of the descriptor, of the arguments
\* and of nothing, function calls and malformed text.
RECURSIVE TemplatesOf(_)
TemplatesOf(n) ==
    IF n = 0 THEN { << >> }
    ELSE TemplatesOf(n - 1)
           \cup { Append(t, tok) :
                    t \in TemplatesOf(n - 1),
                    tok \in { NumToken(240), NumToken(300),
                              BraceToken(Var("x")),
                              BraceToken([ op |-> "sub", l |-> Const(7),
                                           r |-> Var("y") ]),
                              BraceToken(Var("q")),
                              NameToken("MANUFACTURER_CODE"),
                              NameToken("NumRows"),
                              NameToken("Header"), NameToken("Loop"),
                              NameToken("Ping"),
                              NameToken("x"), NameToken("unknown"),
                              ExprToken(Call("keyIndex",
                                             << Var("x"), Var("y") >>)),
                              ExprToken(Call("selfRef", << Var("x") >>)),
                              ExprToken(Call("nothing", << Var("x") >>)),
                              ExprToken(Malformed),
                              [ t |-> "nrpn", x |-> 1, y |-> 2 ] } }

NextTemplate ==
    \* Keyword arguments: pad coordinates in and out of the byte range.
    \/ (\E template \in TemplatesOf(MaxTokens),
           kwargs \in { [ x |-> Val(x), y |-> Val(y) ] :
                          x \in { 5, 300 }, y \in { 1, 9 } } :
            BuildMessage(template, kwargs))

SpecTemplate == Init /\ [][NextTemplate]_vars

(***************************************************************************)
(* SpecParse: byte lists handed to send_raw_bytes                          *)
(***************************************************************************)
\* Runs of up to n of the data bytes used in the messages.
RECURSIVE DataSeqs(_)
DataSeqs(n) ==
    IF n = 0 THEN { << >> }
    ELSE DataSeqs(n - 1)
           \cup { Append(d, b) : d \in DataSeqs(n - 1), b \in { 0, 64, 127 } }

\* Valid messages: SysEx 0xF0 .. 0xF7 with up to MaxSysExData data bytes,
\* channel messages, system-common messages and real-time bytes, each of
\* the length its status requires.
ValidMessages ==
    { << 240 >> \o d \o << 247 >> : d \in DataSeqs(MaxSysExData) }
      \cup { << 144, 60, 100 >>, << 129, 60, 0 >>, << 176, 7, 127 >>,
             << 192, 5 >>, << 208, 64 >>, << 224, 0, 64 >>,
             << 241, 1 >>, << 242, 1, 2 >>, << 243, 3 >>, << 246 >>,
             << 248 >>, << 255 >> }

\* The byte lists handed over: one valid message, two of them, nothing, and
\* byte lists that are not a run of valid messages: a stray data byte, a
\* lone end-of-SysEx, an unterminated SysEx and a truncated note-on.
ParseInputs ==
    { a \o b : a, b \in ValidMessages } \cup ValidMessages
      \cup { << 5, 144, 60, 100 >>, << 247 >>, << 240, 1, 2 >>, << 144, 60 >> }
      \cup { << >> }

NextParse ==
    \/ (\E data \in ParseInputs : SendRawBytesParse(data))

SpecParse == Init /\ [][NextParse]_vars

(***************************************************************************)
(* SpecLock: the threads that take a lock and the threads that send        *)
(***************************************************************************)
\* One more call from outside the two locking threads may happen.
MoreLockCalls ==
    switches + port_events + discovery_iterations + Len(virt_out) < MaxLockCalls

NextLock ==
    \/ StartApp
    \/ (\E c \in PortControllers :
            /\ MoreLockCalls
            /\ (PortAppears(c) \/ PortDisappears(c)))
    \/ (\E owner \in { "main", "discovery" } :
            /\ MoreLockCalls
            /\ PortsLockAcquire(owner))
    \/ (\E owner \in { "main", "discovery" } : PortsLockRelease(owner))
    \* The rest of the iteration; its auto-connect calls cancel_color_send,
    \* which takes the generation lock.
    \/ (\E found \in ConnectOutcomes :
            /\ ports_copies = discovery_iterations + 1
            /\ discovery_iterations < MaxDiscoveryIterations
            /\ color_send_lock = << >>
            /\ DiscoveryIteration(found))
    \* switch_controller selects a controller with a MIDI port;
    \* _recalculate_layout calls cancel_color_send.
    \/ (\E c \in PortControllers :
            /\ MoreLockCalls
            /\ color_send_lock = << >>
            /\ SwitchController(c))
    \* /api/trigger_note sends on the virtual port; it takes no lock.
    \/ (MoreLockCalls /\ TriggerNote(<<0, 0>>, 100, TRUE))
    \/ (\E w \in DOMAIN workers : WorkerStart(w))
    \/ (\E w \in DOMAIN workers : WorkerLock(w))
    \/ (\E w \in DOMAIN workers : WorkerUnlock(w))
    \/ (\E w \in DOMAIN workers : WorkerSend(w))

SpecLock == Init /\ [][NextLock]_vars

(***************************************************************************)
(* Properties of the MIDI core                                             *)
(***************************************************************************)
RemapRecords == { i \in DOMAIN virt_out : virt_out[i].by = "remap" }

\* The remap thread leaves the loop body for the next queue.get.
RemapFinishes == pc_remap # "get" /\ pc_remap' = "get"

\* The note of the message in hand is mapped by the installed tables.
InstalledHit ==
    /\ message[2] \in DOMAIN reverse_mapping
    /\ reverse_mapping[message[2]] \in DOMAIN note_mapping

\* C2: while a thread executes update_note_mapping, the remap thread never
\* serves one note message with the reverse table of one installation and
\* the forward table of another.
C2_TablesOfOneInstallation ==
    pc_remap = "emit" => used_rev_inst = used_fwd_inst

\* C3: a dequeued NoteOn/NoteOff message whose native note is not a key of
\* the reverse mapping, or whose pad is not a key of pad_to_index, leads to
\* no output at all, and no note message ever reaches the virtual output as
\* a raw pass-through.
C3_UnmappedNoteDropped ==
    /\ [](\A i \in RemapRecords :
             IsNoteMessage(virt_out[i].src) => virt_out[i].kind = "remap")
    /\ [][ (RemapFinishes /\ stable_since_get /\ ~InstalledHit)
           => (virt_out' = virt_out /\ Len(virt_out) = out_at_get) ]_vars

C3_Witness ==
    /\ pc_remap = "get"
    /\ IsNoteMessage(message)
    /\ stable_since_get
    /\ message[2] \in DOMAIN reverse_mapping
    /\ reverse_mapping[message[2]] \notin DOMAIN note_mapping
    /\ note_mapping # EmptyMap
    /\ Len(virt_out) = out_at_get

\* C4: a dequeued message that is not a NoteOn/NoteOff message is handed to
\* the virtual output with its original bytes in the step that dequeues it,
\* once, whatever the installed tables are.
C4_NonNotePassThrough ==
    /\ [](/\ \A i \in RemapRecords :
                virt_out[i].kind = "pass"
                => (virt_out[i].bytes = virt_out[i].src
                    /\ ~IsNoteMessage(virt_out[i].src))
          /\ Cardinality({ i \in RemapRecords : virt_out[i].kind = "pass" })
                = messages_processed - notes_remapped)
    /\ [][ (drained' = drained + 1
            /\ ~IsNoteMessage(Head(message_queue)[1]))
           => (/\ Len(virt_out') = Len(virt_out) + 1
               /\ SubSeq(virt_out', 1, Len(virt_out)) = virt_out
               /\ virt_out'[Len(virt_out')].bytes = Head(message_queue)[1]
               /\ virt_out'[Len(virt_out')].kind = "pass"
               /\ messages_processed' = messages_processed + 1
               /\ pc_remap' = "get") ]_vars

C4_Witness ==
    /\ note_mapping # EmptyMap
    /\ reverse_mapping # EmptyMap
    /\ \E i \in RemapRecords :
          virt_out[i].kind = "pass" /\ virt_out[i].bytes = <<176, 10, 99>>

\* C5: a dequeued three-byte note message [s, n, v] with n in the reverse
\* mapping and reverse_mapping[n] in pad_to_index makes the remap thread emit
\* exactly [s, pad_to_index[reverse_mapping[n]], v] and add one to
\* notes_remapped; notes_remapped always equals the number of remapped notes
\* emitted.
C5_HitEmitsRemappedNote ==
    /\ [](notes_remapped
            = Cardinality({ i \in RemapRecords : virt_out[i].kind = "remap" }))
    /\ [][ (RemapFinishes /\ stable_since_get /\ InstalledHit)
           => (/\ Len(virt_out) = out_at_get
               /\ virt_out' = Append(virt_out,
                     [bytes |-> << message[1],
                                   note_mapping[reverse_mapping[message[2]]],
                                   message[3] >>,
                      by |-> "remap", kind |-> "remap", src |-> message])
               /\ notes_remapped' = notes_remapped + 1) ]_vars

\* C6: the ingress queue is a FIFO of capacity 1024: below 1024 pending
\* messages the callback appends, at 1024 it drops the new message and keeps
\* the pending ones in order, and the callback always completes.
C6_Capacity1024 ==
    /\ [](ENABLED MidiCallback(BurstMessage))
    /\ [][ clock' = clock + 1
           => message_queue' =
                IF Len(message_queue) < midi_buffer_size
                THEN Append(message_queue, <<BurstMessage, clock + 1>>)
                ELSE message_queue ]_vars

(***************************************************************************)
(* Properties of the controller egress                                     *)
(***************************************************************************)
\* The records of ctrl_out that a generation-carrying send handed over.
ColorRecords == { j \in DOMAIN ctrl_out : ctrl_out[j].generation # None }

\* The messages worker w has handed over, in order.
HandedOverBy(w) == SelectSeq(ctrl_out, LAMBDA r : r.worker = w)

\* C1: on the controller output no message of an older generation follows
\* a message of a newer generation, and the messages of one generation
\* appear in stream order.
C1_NoInterleaving ==
    \A j, k \in ColorRecords :
        j < k => /\ ctrl_out[j].generation <= ctrl_out[k].generation
                 /\ ctrl_out[j].generation = ctrl_out[k].generation
                      => ctrl_out[j].idx < ctrl_out[k].idx

\* C9: once the tuning handler is past its first statement the generation
\* counter exceeds its value at arrival, the tuning is rebuilt and the
\* layout recalculated only after that, and from then on, in particular
\* when the worker this update starts hands over messages, no send that
\* was in flight at arrival holds the counter's generation.
C9_CancelBeforeRetune ==
    /\ [](pc_scale \in { "cancelled", "tuned" }
            => color_send_generation > gen_at_arrival)
    /\ [][(tuning' # tuning \/ (pc_scale = "tuned" /\ pc_scale' = "idle"))
            => color_send_generation > gen_at_arrival]_vars
    /\ []((pc_scale \in { "cancelled", "tuned" } \/ scale_worker # 0)
            => \A w \in inflight_at_arrival :
                 workers[w].generation # color_send_generation)

\* A tuning update arrived while a send had handed over part of its
\* messages; the update's own worker has handed over a message.
C9_Witness ==
    /\ scale_worker # 0
    /\ Len(HandedOverBy(scale_worker)) > 0
    /\ \E w \in inflight_at_arrival :
         /\ workers[w].i > 0
         /\ workers[w].pc = "cancelled"

\* C10: a send compares its generation with the counter before each
\* message: a check that finds them equal leads to handing over the next
\* message, a check that finds them different ends the send, which has
\* then handed over exactly m1..m_(i-1) and never hands over another one.
C10_CheckBeforeEachMessage ==
    /\ [][\A w \in DOMAIN workers :
            (workers[w].pc = "check" /\ workers'[w] # workers[w])
              => /\ ctrl_out' = ctrl_out
                 /\ workers'[w] =
                      [ workers[w] EXCEPT !.pc =
                          IF color_send_generation = workers[w].generation
                          THEN "send" ELSE "cancelled" ]]_vars
    /\ [][\A w \in DOMAIN workers :
            Len(HandedOverBy(w)) < Len(SelectSeq(ctrl_out', LAMBDA r : r.worker = w))
              => workers[w].pc = "send"]_vars
    /\ [][\A w \in DOMAIN workers :
            workers[w].pc = "cancelled" => workers'[w] = workers[w]]_vars
    /\ [](\A w \in DOMAIN workers :
            /\ HandedOverBy(w) =
                 [ k \in 1..workers[w].i |->
                     [ generation |-> workers[w].generation, idx |-> k,
                       worker |-> w ] ]
            /\ workers[w].pc = "cancelled" => workers[w].i < workers[w].n)

\* A send cancelled after its first and before its last message.
C10_Witness ==
    \E w \in DOMAIN workers :
        /\ workers[w].pc = "cancelled"
        /\ 0 < workers[w].i
        /\ workers[w].i < workers[w].n

(***************************************************************************)
(* Properties of the layout calculators                                    *)
(***************************************************************************)
\* The result of calculate_mapping in the current coordinator state.
CurrentCalculation ==
    CalculateMapping(calculator, Controllers[current_controller].pads,
                     Tunings[tuning])

\* C7: every value of the installed note mapping is an integer in [0, 127].
C7_IndicesInMidiRange ==
    \A pad \in DOMAIN note_mapping : note_mapping[pad] \in 0..127

\* C8: a pad whose lattice coordinate is not a key of coord_to_scale_index
\* is not a key of the mapping calculate_mapping returns.
C8_OffScalePadAbsent ==
    (current_controller # "none" /\ calculator # NoCalculator)
      => \A pad \in Controllers[current_controller].pads :
           GetMosCoordinate(CurrentCalculation.calc, pad)
               \notin DOMAIN Tunings[tuning].table
             => pad \notin DOMAIN CurrentCalculation.mapping

(***************************************************************************)
(* Properties of the generation counter                                    *)
(***************************************************************************)
\* C11: every cancel_color_send call adds exactly one to the generation
\* counter and returns the new value; nothing else changes the counter, so
\* it never decreases, and no two calls, from the coordinator handlers or
\* from the tuning handler's thread, return the same value.
C11_CancelIncrementsAndReturns ==
    /\ [][ (color_send_generation' # color_send_generation
            \/ cancel_returns' # cancel_returns)
           => /\ color_send_generation' = color_send_generation + 1
              /\ cancel_returns' =
                   Append(cancel_returns, color_send_generation') ]_vars
    /\ [](\A i, j \in DOMAIN cancel_returns :
            i < j => cancel_returns[i] < cancel_returns[j])

\* The tuning handler's thread got a value between the generations of two
\* color sends the coordinator started, the first of them still in flight.
C11_Witness ==
    \E v \in DOMAIN cancel_returns, w1, w2 \in DOMAIN workers :
        /\ workers[w1].generation < cancel_returns[v]
        /\ cancel_returns[v] < workers[w2].generation
        /\ InFlight(workers[w1])


(***************************************************************************)
(* Properties of the virtual output                                        *)
(***************************************************************************)
\* C12: the remap thread is the only writer to the virtual output: every
\* message handed to the port, the notes of trigger_note included, is handed
\* over by the remap thread and by no other thread.
C12_RemapThreadOnlyWriter ==
    \A i \in DOMAIN virt_out : virt_out[i].by = "remap"


\* The remapped notes handed to the virtual output.
RemappedRecords == { i \in DOMAIN virt_out : virt_out[i].kind = "remap" }

\* C13: two note events of the same pad that were both accepted into the
\* ingress queue and both remapped reach the virtual output in the order in
\* which they arrived at the input callback.
C13_SamePadArrivalOrder ==
    \A i, j \in RemappedRecords :
        (i < j /\ virt_out[i].src[2] = virt_out[j].src[2])
            => virt_at[i] < virt_at[j]

\* Two note events of one pad were both remapped, with another message
\* handed over between them.
C13_Witness ==
    \E i, j \in RemappedRecords :
        /\ i + 1 < j
        /\ virt_out[i].src[2] = virt_out[j].src[2]


(***************************************************************************)
(* Properties of the isomorphic transform                                  *)
(***************************************************************************)
\* C14: the linear part of the mapping_transform an IsomorphicLayout holds
\* has determinant +1 or -1 after construction, after the first fit and its
\* rounding, after every refit on a retune and after any sequence of
\* apply_transformation calls, in rectangular and in hexagonal mode.
C14_DeterminantIsUnit ==
    iso # NoCalculator => Det(iso.mapping_transform) \in {1, -1}

\* A hexagonal layout that was fitted, edited twice and refitted onto the
\* pads of a tuning with another period.
C14_Witness ==
    /\ iso # NoCalculator
    /\ iso.quad_or_hex = "hex"
    /\ iso.initialized
    /\ iso_edits >= 2
    /\ iso_fits = 2
    /\ iso.mos_period = << 5, 2 >>
    /\ iso.mos_period_device_coord #
         << iso.mos_root_device_coord[1] + 1, iso.mos_root_device_coord[2] + 2 >>
    /\ << iso.mapping_transform[1], iso.mapping_transform[2],
          iso.mapping_transform[3], iso.mapping_transform[4] >> # << 1, 0, 0, 1 >>


\* The linear part of a transform.
LinearPart(M) == << M[1], M[2], M[3], M[4] >>

\* The edit that undoes each edit, by name.
InverseEdit ==
    [ shift_left |-> "shift_right", shift_right |-> "shift_left",
      shift_up |-> "shift_down", shift_down |-> "shift_up",
      skew_left |-> "skew_right", skew_right |-> "skew_left",
      rotate_left |-> "rotate_right", rotate_right |-> "rotate_left",
      reflect_horizontal |-> "reflect_horizontal",
      reflect_vertical |-> "reflect_vertical",
      shift_upright |-> "shift_downleft", shift_downleft |-> "shift_upright",
      shift_upleft |-> "shift_downright", shift_downright |-> "shift_upleft",
      skew_upright |-> "skew_downleft", skew_downleft |-> "skew_upright",
      skew_upleft |-> "skew_downright", skew_downright |-> "skew_upleft",
      rotate_left_hex |-> "rotate_right_hex",
      rotate_right_hex |-> "rotate_left_hex",
      reflect_x_hex |-> "reflect_x_hex", reflect_y_hex |-> "reflect_y_hex",
      reflect_xy_hex |-> "reflect_xy_hex" ]

\* C15 as stated: any sequence of edits whose deltas compose to the
\* identity leaves all six integers of the transform at their original
\* values.
C15_ComposedIdentityRestores ==
    (iso # NoCalculator /\ iso_composed = IdentityTransform)
        => iso.mapping_transform = iso_origin

\* C15 as amended: any sequence of edits whose deltas have linear parts
\* that multiply to the identity and translations that sum to zero leaves
\* all six integers of the transform at their original values; so does
\* every edit followed by its inverse (shift_left then shift_right among
\* them), reflect_horizontal applied twice and rotate_left applied four
\* times in rectangular mode.
C15_LinearIdentityZeroShiftRestores ==
    /\ [](iso # NoCalculator =>
            /\ (LinearPart(iso_composed) = << 1, 0, 0, 1 >> /\ iso_shift = << 0, 0 >>)
                   => iso.mapping_transform = iso_origin
            /\ (iso_last = "reflect_horizontal" /\ iso_run = 2)
                   => iso.mapping_transform = iso_run_start
            /\ (iso_last = "rotate_left" /\ iso_run = 4 /\ iso.quad_or_hex = "rect")
                   => iso.mapping_transform = iso_run_start)
    /\ [][ (iso_edits' = iso_edits + 1 /\ iso_last # ""
              /\ iso_last' = InverseEdit[iso_last])
           => iso'.mapping_transform = iso_before ]_vars

\* A fitted layout was rotated and rotated back: the deltas since the fit
\* compose to the identity and the transform is not the initial one.
C15_Witness ==
    /\ iso # NoCalculator
    /\ iso.initialized
    /\ iso_last = "rotate_right"
    /\ iso_run = 1
    /\ iso_composed = IdentityTransform
    /\ LinearPart(iso_origin) # << 1, 0, 0, 1 >>


(***************************************************************************)
(* Properties of the layouts                                               *)
(***************************************************************************)
\* The handler step that applied shift_right to the isomorphic calculator
\* and recomputed: the translation moved by (1, 0), the linear part stayed.
ShiftRightStep ==
    /\ calculator.kind = "isomorphic"
    /\ calculator'.kind = "isomorphic"
    /\ edits' = edits + 1
    /\ calculator'.mapping_transform =
         [ calculator.mapping_transform EXCEPT ![5] = @ + 1 ]

\* C16 as stated: after shift_right and the recompute, every pad (lx, ly)
\* that was present before is mapped to the index formerly held by pad
\* (lx + 1, ly), or is absent if (lx + 1, ly) was absent.
C16_ShiftRightTakesRightNeighbour ==
    [][ ShiftRightStep =>
          \A pad \in DOMAIN note_mapping :
             LET right == << pad[1] + 1, pad[2] >>
             IN IF right \in DOMAIN note_mapping
                THEN /\ pad \in DOMAIN note_mapping'
                     /\ note_mapping'[pad] = note_mapping[right]
                ELSE pad \notin DOMAIN note_mapping' ]_vars

\* C16 as amended: after shift_right and the recompute, every pad (lx, ly)
\* of the controller whose left neighbour (lx - 1, ly) is a pad of the
\* controller is mapped to the index formerly held by (lx - 1, ly), or is
\* absent if (lx - 1, ly) was absent.
C16_ShiftRightTakesLeftNeighbour ==
    [][ ShiftRightStep =>
          \A pad \in Controllers[current_controller].pads :
             LET left == << pad[1] - 1, pad[2] >>
             IN left \in Controllers[current_controller].pads =>
                  IF left \in DOMAIN note_mapping
                  THEN /\ pad \in DOMAIN note_mapping'
                       /\ note_mapping'[pad] = note_mapping[left]
                  ELSE pad \notin DOMAIN note_mapping' ]_vars

\* The 3x3 grid after one shift_right of its fitted isomorphic layout: a
\* pad and its left neighbour are both mapped.
C16_Witness ==
    /\ current_controller = "Grid3x3"
    /\ calculator.kind = "isomorphic"
    /\ calculator.initialized
    /\ edits = 1
    /\ calculator.mapping_transform[5] = DefaultRoot("Grid3x3")[1] + 1
    /\ calculator.mapping_transform[6] = DefaultRoot("Grid3x3")[2]
    /\ \E pad \in DOMAIN note_mapping : << pad[1] - 1, pad[2] >> \in DOMAIN note_mapping


\* The index the string-like formula gives to a pad.
StringFormula(calc, pad) ==
    LET sx == IF calc.flip_horizontal THEN -1 ELSE 1
        sy == IF calc.flip_vertical THEN -1 ELSE 1
    IN 60 + sx * (pad[1] - calc.root_x)
          + calc.row_offset * sy * (pad[2] - calc.root_y)

\* C17: in the string-like layout the index of pad (lx, ly) is
\* i = 60 + sx*(lx - root_x) + row_offset*sy*(ly - root_y) with sx, sy = -1
\* when flipped and +1 otherwise; the pad is in pad_to_index, with value i,
\* exactly when i is an index of coord_to_scale_index and 0 <= i <= 127;
\* with row_offset 5, root (0, 0) and no flip, pad (3, 2) gives 73.
C17_StringLikeIndex ==
    /\ GetScaleIndex(NewStringLikeLayout(<< 0, 0 >>), << 3, 2 >>) = 73
    /\ (calculator.kind = "string_like" /\ current_controller # "none"
          /\ pc_scale # "tuned")
       => \A pad \in Controllers[current_controller].pads :
             LET i == StringFormula(calculator, pad)
                 table == Tunings[tuning].table
             IN /\ pad \in DOMAIN note_mapping => note_mapping[pad] = i
                /\ pad \in DOMAIN note_mapping
                     <=> /\ \E c \in DOMAIN table : table[c] = i
                         /\ 0 <= i /\ i <= 127

\* A vertically flipped string-like layout with a mapped pad off the root
\* row.
C17_Witness ==
    /\ calculator.kind = "string_like"
    /\ current_controller # "none"
    /\ pc_scale = "idle"
    /\ calculator.flip_vertical
    /\ \E pad \in DOMAIN note_mapping : pad[2] # calculator.root_y


\* C18: for every pad the active controller declares and in every state,
\* the states between a tuning update or a transformation and the
\* installation of the recomputed mapping included, when the calculator's
\* lattice-coordinate query gives a key of coord_to_scale_index and the pad
\* is a key of the installed mapping, the two indices are equal.
C18_LatticeQueryAgreesWithInstalled ==
    (current_controller # "none" /\ calculator # NoCalculator)
      => \A pad \in Controllers[current_controller].pads :
           LET c == GetMosCoordinate(calculator, pad)
               table == Tunings[tuning].table
           IN (c \in DOMAIN table /\ pad \in DOMAIN note_mapping)
                => table[c] = note_mapping[pad]


(***************************************************************************)
(* Properties of controller switches and port discovery                    *)
(***************************************************************************)
\* C19: after a controller switch (switch_controller, or a connect) the
\* mapping installed in the MIDI core is empty from the moment the
\* descriptor is replaced until the first _recalculate_layout for the new
\* controller completes, and in that window no note is remapped through
\* the previous controller's mapping.
C19_EmptyUntilRecalculated ==
    /\ [](pc_switch # "idle" => note_mapping = EmptyMap)
    /\ [][ (pc_switch # "idle" /\ pc_switch' # "idle")
             => notes_remapped' = notes_remapped ]_vars


\* C20: with a controller connected, once its port is not in the cached
\* port list, the next discovery iteration disconnects it, so that
\* is_controller_connected() is false, and emits a status event for the
\* change.
C20_PortLostDisconnectsAndReports ==
    [][ (/\ discovery_iterations' = discovery_iterations + 1
         /\ controller_port
         /\ connected_port_name \notin cached_midi_ports)
        => /\ ~controller_port'
           /\ discovery_events' = discovery_events + 1 ]_vars


(***************************************************************************)
(* Properties of the message parser                                        *)
(***************************************************************************)
\* C21: for any two valid MIDI messages a and b, parsing the concatenation
\* a ++ b yields exactly the list [a, b].
C21_ParseOfConcatenation ==
    \A a, b \in ValidMessages :
        parse_data = a \o b => parse_messages = << a, b >>

\* A program change followed by a SysEx with data was parsed.
C21_Witness ==
    /\ parse_data = << 192, 5, 240, 0, 64, 247 >>
    /\ Len(parse_messages) = 2


C23_PortAbsentKeepsRunning ==
    midi_out = "unopened" => running


(***************************************************************************)
(* Properties of the remap loop under errors                               *)
(***************************************************************************)
\* C24: an error while the remap thread handles one message (a raising UI
\* callback, a failing lookup, a failing send) does not end the loop: the
\* thread is back at queue.get and still running, so later messages are
\* processed; and a raising UI callback does not keep the remapped note of
\* that message from being emitted.
C24_ErrorsDoNotEndTheLoop ==
    /\ [][loop_errors' # loop_errors \/ callback_errors' # callback_errors
            => pc_remap' = "get" /\ running' /\ running]_vars
    /\ [][callback_errors' # callback_errors /\ mapped_note # None
            => /\ virt_out' = Append(virt_out,
                                     [ bytes |-> << message[1], mapped_note,
                                                    message[3] >>,
                                       by |-> "remap", kind |-> "remap",
                                       src |-> message ])
               /\ notes_remapped' = notes_remapped + 1]_vars

\* After a lookup failed for one message and the UI callback raised for
\* another, whose remapped note is on the virtual output, a later message
\* is taken from the queue and looked up.
C24_Witness ==
    /\ loop_errors > 0
    /\ callback_errors > 0
    /\ notes_remapped > 0
    /\ pc_remap = "fwd_get"
    /\ timestamp > virt_at[Len(virt_at)]


(***************************************************************************)
(* Properties of the template engine                                       *)
(***************************************************************************)
\* C25: every element of the byte list the template engine produces lies
\* in [0, 255]; a token that evaluates to a value outside that range
\* contributes a 0 byte.
C25_BytesInRange ==
    tpl_pc = "returned" /\ ~tpl_result.raised
      => \A i \in DOMAIN tpl_result.bytes :
             0 <= tpl_result.bytes[i] /\ tpl_result.bytes[i] <= 255

\* C26: expanding a macro that refers to itself, directly or through other
\* macros of the descriptor, ends with a failure of build_midi_message.
C26_SelfReferenceFails ==
    tpl_pc = "returned"
      /\ (\E i \in DOMAIN tpl_template :
              tpl_template[i]
                \in { NameToken("Loop"), NameToken("Ping"),
                      ExprToken(Call("selfRef", << Var("x") >>)) })
      => tpl_result.raised


(***************************************************************************)
(* Properties of the isomorphic edits and refits                           *)
(***************************************************************************)
ShiftKinds ==
    { "shift_left", "shift_right", "shift_up", "shift_down", "shift_upright",
      "shift_downleft", "shift_upleft", "shift_downright" }

\* C27: an isomorphic edit with delta D turns M = (A, t) into
\* t_only(M) . D . a_only(M): a rotate, skew or reflect kind keeps the
\* translation and makes the linear part D_A . A; a shift kind keeps the
\* linear part and adds the translation of D to t.
C27_EditComposesBetweenTranslationAndLinearPart ==
    iso # NoCalculator /\ iso_last # ""
      => LET D == IsoDeltas(iso)[iso_last]
             M == iso_before
             N == iso.mapping_transform
         IN IF iso_last \in ShiftKinds
            THEN /\ << N[1], N[2], N[3], N[4] >> = << M[1], M[2], M[3], M[4] >>
                 /\ << N[5], N[6] >> = << M[5] + D[5], M[6] + D[6] >>
            ELSE /\ << N[5], N[6] >> = << M[5], M[6] >>
                 /\ N[1] = D[1] * M[1] + D[2] * M[3]
                 /\ N[2] = D[1] * M[2] + D[2] * M[4]
                 /\ N[3] = D[3] * M[1] + D[4] * M[3]
                 /\ N[4] = D[3] * M[2] + D[4] * M[4]

\* A rotation was applied to a fitted transform whose origin is not on
\* pad (0, 0) and whose linear part is not the identity.
C27_Witness ==
    /\ iso # NoCalculator
    /\ iso_last = "rotate_left"
    /\ iso_fits > 0
    /\ << iso_before[5], iso_before[6] >> # << 0, 0 >>
    /\ << iso_before[1], iso_before[2], iso_before[3], iso_before[4] >>
         # << 1, 0, 0, 1 >>


\* C28: when calculate_mapping of an initialized isomorphic layout finds a
\* MOS period or generator other than the stored one, the new M maps (0,0),
\* the new period and the new generator to the pads to which the old M
\* mapped (0,0), the old period and the old generator; when they are the
\* stored ones, M is left unchanged.
C28_RefitKeepsAnchorPads ==
    [][iso # NoCalculator /\ iso.initialized /\ iso_fits' = iso_fits + 1
         => IF iso'.mos_period # iso.mos_period
                 \/ iso'.mos_generator # iso.mos_generator
            THEN /\ Apply(iso'.mapping_transform, << 0, 0 >>)
                      = Apply(iso.mapping_transform, << 0, 0 >>)
                 /\ Apply(iso'.mapping_transform, iso'.mos_period)
                      = Apply(iso.mapping_transform, iso.mos_period)
                 /\ Apply(iso'.mapping_transform, iso'.mos_generator)
                      = Apply(iso.mapping_transform, iso.mos_generator)
            ELSE iso'.mapping_transform = iso.mapping_transform]_vars

\* A layout that was fitted, then edited, was fitted again to another MOS:
\* its anchors are the pads of the lattice origin, period and generator, and
\* they are no longer the ones of the constructor.
C28_Witness ==
    /\ iso # NoCalculator
    /\ iso.initialized
    /\ iso_fits >= 2
    /\ iso_edits >= 1
    /\ iso_last = ""
    /\ iso.mos_root_device_coord # DefaultRoot("Grid3x3")
    /\ iso.mos_root_device_coord = Apply(iso.mapping_transform, << 0, 0 >>)
    /\ iso.mos_period_device_coord
         = Apply(iso.mapping_transform, iso.mos_period)
    /\ iso.mos_generator_device_coord
         = Apply(iso.mapping_transform, iso.mos_generator)


(***************************************************************************)
(* Properties of the recompute and of the controller switch                *)
(***************************************************************************)
\* C29: a recompute made by update_layout_config or by a tuning update
\* keeps the calculator when the requested layout kind is the kind of the
\* current calculator: the calculator afterwards is the current one after
\* its calculate_mapping, and a same-kind update_layout_config leaves its
\* parameters as they were; a calculator with default parameters is made
\* only when the kind differs or no calculator exists.  Without a
\* controller nothing is recomputed.
C29_SameKindKeepsCalculator ==
    [][(\/ switches' # switches /\ last_handler' = "update_layout_config"
        \/ pc_scale = "tuned" /\ pc_scale' = "idle")
         => IF current_controller = "none"
            THEN calculator' = calculator
            ELSE IF calculator # NoCalculator /\ calculator.kind = layout_type'
            THEN /\ calculator'
                      = CalculateMapping(
                            calculator,
                            Controllers[current_controller].pads,
                            Tunings[tuning]).calc
                 /\ pc_scale = "idle" => calculator' = calculator
            ELSE calculator'
                   = CalculateMapping(
                         NewCalculator(layout_type', current_controller),
                         Controllers[current_controller].pads,
                         Tunings[tuning]).calc]_vars

\* An isomorphic layout that was edited went through an update_layout_config
\* of the same kind and is not the layout a default calculator gives.
C29_Witness ==
    /\ last_handler = "update_layout_config"
    /\ edits >= 1
    /\ current_controller # "none"
    /\ layout_type = "isomorphic"
    /\ calculator.kind = "isomorphic"
    /\ calculator.mapping_transform
         # CalculateMapping(NewCalculator("isomorphic", current_controller),
                            Controllers[current_controller].pads,
                            Tunings[tuning]).calc.mapping_transform
C31_StripParametersInRange ==
    (calculator.kind = "piano_like" /\ current_controller # "none")
      => LET pads == Controllers[current_controller].pads
             R == MaxY(pads) - MinY(pads) + 1
         IN /\ 1 <= calculator.strip_width
            /\ calculator.strip_width <= R
            /\ 0 <= calculator.scale_row_index
            /\ calculator.scale_row_index < calculator.strip_width

\* C32: a shift_up or shift_down of a PianoLike layout displaces the
\* installed pad_to_index vertically: with dy the change of root_y, every
\* pad (x, y) that is mapped before and whose pad (x, y + dy) is mapped
\* after carries its former entry to (x, y + dy).
C32_VerticalShiftDisplacesMapping ==
    [][(/\ last_handler' = "apply_transformation"
        /\ edits' = edits + 1
        /\ current_controller # "none"
        /\ calculator.kind = "piano_like"
        /\ calculator'.root_y # calculator.root_y)
         => LET dy == calculator'.root_y - calculator.root_y
            IN \A p \in DOMAIN note_mapping :
                  << p[1], p[2] + dy >> \in DOMAIN note_mapping'
                    => note_mapping'[<< p[1], p[2] + dy >>] = note_mapping[p]]_vars

(***************************************************************************)
(* Properties of the locks                                                 *)
(***************************************************************************)
\* C33: a thread that sends a MIDI message, to the controller output or to
\* the virtual output, holds neither the generation lock nor the port-list
\* lock at that moment.  The sender of a controller message is the color
\* worker recorded with it, or the discovery thread whose auto-connect sends
\* the pad notes; the sender of a virtual-port message is the request thread
\* of trigger_note, which is not one of the lock holders.
C33_NoLockHeldWhileSending ==
    [][ /\ Len(ctrl_out') > Len(ctrl_out)
           => LET sent == ctrl_out'[Len(ctrl_out')]
                  sender == IF sent.worker > 0
                            THEN << "worker", sent.worker >>
                            ELSE << "discovery" >>
              IN  /\ color_send_lock # sender
                  /\ ports_lock # sender
        /\ Len(virt_out') > Len(virt_out)
           => LET sender == << virt_out'[Len(virt_out')].by >>
              IN  /\ color_send_lock # sender
                  /\ ports_lock # sender ]_vars

\* A color worker has sent a message after taking and releasing the
\* generation lock, while the main thread is inside refresh_midi_ports with
\* the port-list lock, the discovery thread has copied the port list and
\* the virtual port has carried a triggered note.
C33_Witness ==
    /\ \E i \in DOMAIN ctrl_out : ctrl_out[i].worker > 0
    /\ \E w \in DOMAIN workers : workers[w].pc = "locked"
    /\ ports_lock = << "main" >>
    /\ ports_copies > 0
    /\ Len(virt_out) > 0
(***************************************************************************)
(* Properties of the auto-connect                                          *)
(***************************************************************************)
\* C34: whenever a controller is selected, no controller is connected over
\* MIDI and the port of the selected controller is in the cached port
\* list, the discovery thread eventually connects to it, unless the
\* selection changes or the port leaves the cached list first.
C34_AutoConnectEventually ==
    [](( /\ current_controller \in PortControllers
         /\ ~controller_port
         /\ current_controller \in cached_midi_ports )
       => <>( \/ controller_port
              \/ current_controller \notin PortControllers
              \/ current_controller \notin cached_midi_ports ))

(***************************************************************************)
(* Properties of concurrent recalculations                                 *)
(***************************************************************************)
\* C35: once every recalculation that was triggered has completed, the
\* installed pad-to-note table is the one calculate_mapping gives for the
\* controller, the layout and the tuning as they are then.
C35_LastInstallIsCurrent ==
    ( /\ pc_scale = "idle"
      /\ current_controller # "none"
      /\ installs > 0 )
    => note_mapping = Recalculation(current_controller, layout_type,
                                    calculator, Tunings[tuning]).mapping

(***************************************************************************)
(* Properties of start and stop                                            *)
(***************************************************************************)
\* C36: whatever start() and stop() calls were made, at most one thread is
\* in the loop of _processing_loop taking messages from the queue.
C36_OneRemapThread ==
    Cardinality({ t \in DOMAIN threads : threads[t] = "get" }) <= 1

(***************************************************************************)
(* Properties of a failed connect                                          *)
(***************************************************************************)
\* C37: a connect_to_controller call that returns False (no controller
\* port is open after it) leaves the current controller, the calculator,
\* the installed tables and the MIDI connection to the controller as they
\* were.
C37_FailedConnectChangesNothing ==
    [][ ( /\ last_handler' = "connect_to_controller"
          /\ switches' = switches + 1
          /\ ~controller_port' )
        => UNCHANGED << current_controller, calculator, note_mapping,
                        reverse_mapping, controller_port, controller_out,
                        connected_port_name >> ]_vars

(***************************************************************************)
(* Properties of a cancelled color send                                    *)
(***************************************************************************)
\* C38: when _handle_scale_update returns after it has cancelled a color
\* send that was in flight, it has started a new color send that carries the
\* generation current at that moment.
C38_CancelledSendIsReplaced ==
    [][ ( /\ pc_scale # "idle"
          /\ pc_scale' = "idle"
          /\ \E w \in DOMAIN workers :
                /\ w \in inflight_at_arrival
                /\ InFlight(workers[w])
                /\ workers[w].generation # color_send_generation )
        => /\ scale_worker' # 0
           /\ workers'[scale_worker'].generation = color_send_generation' ]_vars

(***************************************************************************)
(* Properties of the parser as an account of the bytes                     *)
(***************************************************************************)
\* The bytes of d from position i on are the messages msgs in order, with
\* bytes of the set stray between them and nothing else.
RECURSIVE AccountedFor(_, _, _, _)
AccountedFor(d, msgs, i, stray) ==
    IF i > Len(d) THEN msgs = << >>
    ELSE IF /\ msgs # << >>
            /\ Len(Head(msgs)) > 0
            /\ i + Len(Head(msgs)) - 1 <= Len(d)
            /\ Head(msgs) = SubSeq(d, i, i + Len(Head(msgs)) - 1)
         THEN AccountedFor(d, Tail(msgs), i + Len(Head(msgs)), stray)
         ELSE d[i] \in stray /\ AccountedFor(d, msgs, i + 1, stray)

\* A message as MIDI defines it: a SysEx closed by 0xF7, or a status byte
\* with the number of data bytes its kind has.
WholeMessage(m) ==
    IF m[1] = 240 THEN m[Len(m)] = 247
    ELSE Len(m) = ( IF (m[1] >= 192 /\ m[1] <= 223) \/ m[1] \in { 241, 243 }
                    THEN 2
                    ELSE IF m[1] <= 239 \/ m[1] = 242 THEN 3 ELSE 1 )

\* What the parser returned for the byte list it was given: messages that
\* are not empty and start with a status byte, all of them whole except
\* possibly the last one, which the end of the data may cut short, and
\* between them only bytes of the set stray.
ParsedWithOnly(stray) ==
    /\ \A k \in DOMAIN parse_messages :
          /\ Len(parse_messages[k]) > 0
          /\ parse_messages[k][1] >= 128
          /\ k < Len(parse_messages) => WholeMessage(parse_messages[k])
    /\ AccountedFor(parse_data, parse_messages, 1, stray)

\* C39 as stated: the messages returned are the byte list with nothing but
\* stray data bytes (below 0x80) removed.
C39_OnlyDataBytesSkipped == ParsedWithOnly(0..127)

\* C39 amended: the messages returned are the byte list with nothing but
\* the bytes removed that stand where a status byte is expected and start
\* no message: data bytes (below 0x80) and the end-of-SysEx byte 0xF7.
C39_OnlyStrayBytesSkipped == ParsedWithOnly(0..127 \cup { 247 })

\* The parser was handed a stray data byte followed by a note-on and
\* returned the note-on alone.
C39_Witness ==
    /\ parse_data = << 5, 144, 60, 100 >>
    /\ parse_messages = << << 144, 60, 100 >> >>
(***************************************************************************)
(* Properties of a disconnect                                              *)
(***************************************************************************)
\* C40: once disconnect_controller has run, and until another handler runs,
\* the installed pad-to-note table and the reverse table are empty and a
\* trigger_note request puts nothing on the virtual port.
C40_DisconnectClearsMapping ==
    [][ last_handler' = "disconnect_controller"
        => /\ note_mapping' = EmptyMap
           /\ reverse_mapping' = EmptyMap
           /\ last_handler = "disconnect_controller" => virt_out' = virt_out
      ]_vars

====
